---- MODULE Spec2Model ----
(***************************************************************************)
(* Quote-origin resolution pipeline (qdd2): the request orchestrator       *)
(* find_quote_origin, the retrying search client google_cse_search, the    *)
(* BIO merge merge_ner_entities and the containment deduplication of       *)
(* extract_entities_only.                                                  *)
(*                                                                         *)
(* Strings that the code inspects character by character are sequences of  *)
(* one-character strings; strings the code only tests for emptiness are    *)
(* kinds ("" for empty or missing).  Probabilities are integers in units   *)
(* of 1e-5, scores on the 0-100 scale are integers in units of 0.01.       *)
(***************************************************************************)
EXTENDS Integers, Sequences, FiniteSets, TLC

VARIABLES
    \* ---- google_cse_search: one call frame ----
    cse_pc,        \* "idle" | "loop" | "returned" | "raised"
    cse_retries,   \* the retries argument
    cse_attempt,   \* the loop variable of range(retries)
    cse_log,       \* one entry per HTTP request issued: [status, body, slept]
    cse_result,    \* the returned value
    cse_caller,    \* "direct" | "api": who gets the result
    \* ---- find_quote_origin: one request ----
    pc,                       \* the step of the handler that runs next
    request,                  \* QuoteRequest
    invoked,                  \* external capabilities called so far
    calls,                    \* the quote text handed to the matcher and the
                              \* classifier, and how the translation went
    result,                   \* what build_queries_from_text returns
    quote_en,                 \* the text that is matched and scored
    data,                     \* what google_cse_search returned
    search_items,
    candidates_for_matching,
    top_k_candidates,         \* best_span["top_k_candidates"]
    candidate_results,
    best_candidate,
    max_distortion_prob,
    max_distortion_score,
    label,
    response,                 \* the QuoteResponse handed to the caller
    raised,                   \* an exception left the handler
    \* ---- merge_ner_entities: one call ----
    m_pc,                     \* "off" | "call" | "done"
    tokens,                   \* results: the tagger's tokens for one sentence
    merged_groups,            \* groups of token positions
    merged_entities,          \* the returned list of [label, word]
    \* ---- extract_entities_only: the deduplication loop ----
    d_pc,                     \* "off" | "entity" | "inner" | "done"
    entities,                 \* what extract_ner_entities returned
    d_idx,                    \* how many entities the outer loop has finished
    d_pending,                \* what is left of list(seen_normalized)
    is_duplicate,
    seen_normalized,
    entities_by_type,
    \* ---- _dedupe_preserve: one call ----
    t_pc,                     \* "off" | "loop" | "done"
    t_seq,                      \* the argument
    t_idx,                    \* how many items the loop has finished
    t_seen,
    t_out,
    \* ---- extract_span: one call ----
    x_pc,                     \* "off" | "call" | "done"
    sentences,
    center_idx,
    num_before,
    num_after,
    x_ret,                    \* what the call returned or raised
    \* ---- find_best_span_from_candidates_debug: one call ----
    r_pc,                     \* "off" | "call" | "done"
    r_candidates,             \* candidates: [url, snippet]
    r_outcomes,               \* what the embedder does for each candidate
    r_min_score,
    r_ret,                    \* the returned best_global, or None
    \* ---- the server process: startup preload and requests ----
    srv_pc,                   \* "off" | "starting" | "serving"
    ckpt,                     \* classifier_best.bin: "missing" | "present"
    ner_cache,                \* keys held by the lru_cache of get_ner_pipeline
    translation_cache,        \* get_translation_models has a cached result
    sentence_cache,           \* get_sentence_model has a cached result
    quote_mining_cache,       \* get_quote_mining_model has a cached result
    constructed,              \* handles built so far, per capability
    load_attempts,            \* executions of get_quote_mining_model's body:
                              \* [startup, requests]
    rq_pc,                    \* "idle" | "tag" | "translate" | "embed" | "score" | "respond"
    rq_top_k,                 \* the ranked spans of the request being served
    rq_results,               \* candidate_results of that request
    rq_response,              \* the response of the last request that reached scoring
    served,                   \* requests started so far
    \* ---- resolve_person_name_en: one call ----
    n_pc,                     \* "off" | "lexicon" | "wikidata" | "translate" | "done"
    name_ko,                  \* the argument, by its relation to the lexicon
    wikidata_outcome,         \* what the knowledge base will do
    translate_outcome,        \* what the translator will do
    consulted,                \* the sources consulted so far, in order
    n_ret,                    \* what the call returned or raised
    \* ---- find_best_match_span_in_snippet: one call ----
    b_pc,                     \* "off" | "call" | "done"
    b_sentences,              \* split_into_sentences(snippet_text)
    b_before,                 \* num_before
    b_after,                  \* num_after
    b_encode,                 \* "ok" | "raises": what the sentence model does
    sims,                     \* the similarity of each span to the quote span
    span_meta,                \* one entry per span built
    b_ret,                    \* the returned dict, or None
    \* ---- collect_candidates_google_cse: one call ----
    c_pc,                     \* "off" | "domain" | "request" | "items" | "done"
    top_per_domain,           \* the argument
    n_domains,                \* len(domains)
    c_domain,                 \* the domains entered so far
    remaining,                \* candidates still wanted for this domain
    c_start,                  \* start
    per_req,                  \* the page size of the last request
    c_pending,                \* items of the current page not yet looked at
    c_kept,                   \* candidates appended for this domain
    c_requests,               \* requests issued for this domain
    c_last,                   \* num and start of the last request
    c_raised                  \* the call ended with an exception

cse_vars == <<cse_pc, cse_retries, cse_attempt, cse_log, cse_result, cse_caller>>

api_vars == <<pc, request, invoked, calls, result, quote_en, data, search_items,
              candidates_for_matching, top_k_candidates, candidate_results,
              best_candidate, max_distortion_prob, max_distortion_score, label,
              response, raised>>

merge_vars == <<m_pc, tokens, merged_groups, merged_entities>>

dedup_vars == <<d_pc, entities, d_idx, d_pending, is_duplicate, seen_normalized,
                entities_by_type>>

dedupe_vars == <<t_pc, t_seq, t_idx, t_seen, t_out>>

span_vars == <<x_pc, sentences, center_idx, num_before, num_after, x_ret>>

rank_vars == <<r_pc, r_candidates, r_outcomes, r_min_score, r_ret>>

server_vars == <<srv_pc, ckpt, ner_cache, translation_cache, sentence_cache,
                 quote_mining_cache, constructed, load_attempts, rq_pc, rq_top_k,
                 rq_results, rq_response, served>>

resolve_vars == <<n_pc, name_ko, wikidata_outcome, translate_outcome, consulted, n_ret>>

best_vars == <<b_pc, b_sentences, b_before, b_after, b_encode, sims, span_meta, b_ret>>

collect_vars == <<c_pc, top_per_domain, n_domains, c_domain, remaining, c_start, per_req,
                  c_pending, c_kept, c_requests, c_last, c_raised>>

more_vars == <<server_vars, resolve_vars, best_vars, collect_vars>>

not_server_vars == <<resolve_vars, best_vars, collect_vars>>
not_resolve_vars == <<server_vars, best_vars, collect_vars>>
not_best_vars == <<server_vars, resolve_vars, collect_vars>>
not_collect_vars == <<server_vars, resolve_vars, best_vars>>

fn_vars == <<dedupe_vars, span_vars, rank_vars, more_vars>>

old_vars == <<cse_vars, api_vars, merge_vars, dedup_vars, dedupe_vars, span_vars, rank_vars>>

\* ------------------------------------------------------------------------
\* Bounds
\* ------------------------------------------------------------------------
MaxRetries == 3
MaxItems == 2
MaxTokens == 3
MaxEntities == 3
MaxSeq == 3
MaxSentences == 3
MaxAround == 2
MaxRequests == 2

\* ------------------------------------------------------------------------
\* Search responses
\* ------------------------------------------------------------------------
NetErr == 0
Statuses == {NetErr, 200, 302, 403, 404, 429, 503}

\* src/qdd2/search_client.py:114
RetryableStatuses == {429, 500, 502, 503, 504}

\* one element of the "items" array of a search response
\* link/formattedUrl: "" when missing.  snippet: "" missing or empty,
\* "blank" whitespace only, "short" text without a sentence of 20 characters,
\* "text" text with sentences, "bad" a JSON value that is not a string.
ItemPool ==
    { [link |-> "u1", formattedUrl |-> "",   snippet |-> "text"],
      [link |-> "",   formattedUrl |-> "u3", snippet |-> "text"],
      [link |-> "",   formattedUrl |-> "",   snippet |-> "text"],
      [link |-> "u1", formattedUrl |-> "",   snippet |-> ""],
      [link |-> "u2", formattedUrl |-> "",   snippet |-> "blank"],
      [link |-> "u2", formattedUrl |-> "",   snippet |-> "short"],
      [link |-> "u1", formattedUrl |-> "",   snippet |-> "bad"] }

ItemLists == UNION { [1..n -> ItemPool] : n \in 0..MaxItems }

\* the body of a 200 response: a JSON object with an items array, a JSON
\* object without the items key, or bytes that do not parse as JSON
Bodies ==
    { [kind |-> "json", hasItems |-> TRUE, items |-> its] : its \in ItemLists }
    \cup { [kind |-> "json", hasItems |-> FALSE, items |-> << >>],
           [kind |-> "unparsable", hasItems |-> FALSE, items |-> << >>] }

NoBody == [kind |-> "none", hasItems |-> FALSE, items |-> << >>]

\* what one HTTP request can come back with; a network error has no status
Responses ==
    { [status |-> s, body |-> NoBody] : s \in Statuses \ {200} }
    \cup { [status |-> 200, body |-> b] : b \in Bodies }

\* the literal {"items": []} of search_client.py:129
EmptyResult == [kind |-> "json", hasItems |-> TRUE, items |-> << >>]

NoResult == [kind |-> "none", hasItems |-> FALSE, items |-> << >>]

\* ------------------------------------------------------------------------
\* google_cse_search
\* ------------------------------------------------------------------------

\* requests' Response.raise_for_status: raises HTTPError for 4xx and 5xx
RaiseForStatusRaises(status) == status >= 400 /\ status < 600

\* variant: the 200 check does not match, the iteration falls through
CseIterationMisses200(status, body, jsonErrIsRequestException) ==
    IF status = NetErr \/ status \in RetryableStatuses \/ RaiseForStatusRaises(status)
    THEN [what |-> "continue", slept |-> TRUE]
    ELSE [what |-> "continue", slept |-> FALSE]

\* One iteration of the body of `for attempt in range(retries)`, given what
\* the server answered.  jsonErrIsRequestException is the one point the
\* installed requests version decides: a body that does not parse raises
\* requests.JSONDecodeError (a RequestException, caught by the handler) or a
\* plain ValueError (propagated).
\* Result: what := "return" | "continue" | "raise", and whether it slept.
CseIteration(status, body, jsonErrIsRequestException) ==
    IF status = NetErr
    THEN [what |-> "continue", slept |-> TRUE]              \* except RequestException
    ELSE IF status = 200
    THEN IF body.kind = "json"
         THEN [what |-> "return", slept |-> FALSE]          \* return resp.json()
         ELSE IF jsonErrIsRequestException
              THEN [what |-> "continue", slept |-> TRUE]
              ELSE [what |-> "raise", slept |-> FALSE]
    ELSE IF status \in RetryableStatuses
    THEN [what |-> "continue", slept |-> TRUE]
    ELSE IF RaiseForStatusRaises(status)
    THEN [what |-> "continue", slept |-> TRUE]              \* HTTPError is a RequestException
    ELSE [what |-> "continue", slept |-> FALSE]             \* falls off the try block

\* variant: one attempt too many
CseLoopContinuesOffByOne(attempt, retries) == attempt <= retries

\* the loop condition of range(retries)
CseLoopContinues(attempt, retries) == attempt < retries

\* One HTTP request and the handling of its answer.
CseAttempt ==
    /\ cse_pc = "loop"
    /\ CseLoopContinues(cse_attempt, cse_retries)
    /\ \E resp \in Responses, jre \in BOOLEAN :
        LET it == CseIteration(resp.status, resp.body, jre)
        IN /\ cse_log' = Append(cse_log, [status |-> resp.status, body |-> resp.body,
                                          slept |-> it.slept])
           /\ cse_attempt' = cse_attempt + 1
           /\ cse_pc' = CASE it.what = "return" -> "returned"
                          [] it.what = "raise" -> "raised"
                          [] OTHER -> "loop"
           /\ cse_result' = IF it.what = "return" THEN resp.body ELSE cse_result
    /\ UNCHANGED <<cse_retries, cse_caller>>
    /\ UNCHANGED <<api_vars, merge_vars, dedup_vars, fn_vars>>

\* The loop ran out: return {"items": []}.
CseExhausted ==
    /\ cse_pc = "loop"
    /\ ~CseLoopContinues(cse_attempt, cse_retries)
    /\ cse_pc' = "returned"
    /\ cse_result' = EmptyResult
    /\ UNCHANGED <<cse_retries, cse_attempt, cse_log, cse_caller>>
    /\ UNCHANGED <<api_vars, merge_vars, dedup_vars, fn_vars>>


\* the frame of google_cse_search when no call is in progress
CseIdle ==
    /\ cse_pc = "idle"
    /\ cse_retries = 0
    /\ cse_attempt = 0
    /\ cse_log = << >>
    /\ cse_result = NoResult
    /\ cse_caller = "none"

\* ------------------------------------------------------------------------
\* find_quote_origin: data
\* ------------------------------------------------------------------------

\* retries defaults to 3 in google_cse_search's signature
DefaultRetries == 3

\* similarity scores in units of 1e-5, distortion probabilities in units of
\* 1e-5; the values the embedder and the classifier may answer with
SimSet == {-1, 0, 12346}
ProbSet == {10000, 49990, 49996, 50000}

NoScore == -1
NoCand == [none |-> TRUE]
NoResponse == [none |-> TRUE]
NoCalls ==
    [translator |-> "None", matcher |-> "None", classifier |-> "None",
     classifier_raised |-> {}]
NoPipelineResult == [per |-> 0, loc |-> 0, queries |-> [ko |-> "", en |-> ""]]

\* min_score passed by find_quote_origin (backend_api.py:278), units of 1e-5
ApiMinScore == 0

QuoteIds == {"q1", "q2"}
\* article_text: "None" missing, "" empty, "blank" whitespace only
ArticleTexts == {"None", "", "blank", "text"}
QuoteContents == {"", "blank", "quote"}
TopMatches == {-1, 0, 1, 2}

Requests ==
    [quote_id : QuoteIds, quote_content : QuoteContents,
     article_text : ArticleTexts, top_matches : TopMatches]

\* Python truthiness of an optional string
Truthy(str) == str # "" /\ str # "None"

\* len(s.strip()) == 0
StripsToEmpty(str) == str = "" \/ str = "blank"

\* round(x, n) where x = v / unit and the result is counted in units ten
\* times coarser: round half to even
RoundTenth(v) ==
    LET q == v \div 10
        r == v % 10
    IN IF r < 5 THEN q
       ELSE IF r > 5 THEN q + 1
       ELSE IF q % 2 = 0 THEN q ELSE q + 1

\* seq[:n] of Python
SliceTo(seq, n) ==
    LET k == IF n >= 0
             THEN (IF n < Len(seq) THEN n ELSE Len(seq))
             ELSE (IF Len(seq) + n > 0 THEN Len(seq) + n ELSE 0)
    IN SubSeq(seq, 1, k)

\* ------------------------------------------------------------------------
\* QuoteResponse (pydantic model): undeclared keyword arguments are ignored
\* ------------------------------------------------------------------------
QuoteResponseFields ==
    {"quote_id", "quote_content", "candidates", "best_candidate", "error", "debug_info"}

QuoteResponseDefault(f) ==
    CASE f = "best_candidate" -> NoCand
      [] f = "error" -> "None"
      [] f = "debug_info" -> "None"
      [] OTHER -> "None"

QuoteResponse(kwargs) ==
    [f \in QuoteResponseFields |->
        IF f \in DOMAIN kwargs THEN kwargs[f] ELSE QuoteResponseDefault(f)]

\* the error responses built throughout find_quote_origin
ErrorResponse(req, err) ==
    QuoteResponse([quote_id |-> req.quote_id, quote_content |-> req.quote_content,
                   candidates |-> << >>, error |-> err, debug_info |-> "None"])

\* variant: no handler, the exception leaves find_quote_origin
TopLevelHandlerMissing(req) ==
    [raised |-> TRUE, response |-> NoResponse]

\* the except Exception handler around the whole body (backend_api.py:385)
TopLevelHandler(req) ==
    [raised |-> FALSE, response |-> ErrorResponse(req, "Unexpected error")]

\* ------------------------------------------------------------------------
\* find_quote_origin: the steps of the handler
\* ------------------------------------------------------------------------

\* variant: the whitespace-only quote is let through
ValidationErrorNoStrip(req) ==
    IF ~Truthy(req.article_text)
    THEN "article_text is required"
    ELSE IF ~Truthy(req.quote_content)
    THEN "quote_content is empty"
    ELSE "None"

\* Step 1 (backend_api.py:142-158): the error of the first failing check
ValidationError(req) ==
    IF ~Truthy(req.article_text)
    THEN "article_text is required"
    ELSE IF ~Truthy(req.quote_content) \/ StripsToEmpty(req.quote_content)
    THEN "quote_content is empty"
    ELSE "None"

Validate ==
    /\ pc = "VALIDATING"
    /\ LET err == ValidationError(request)
       IN IF err # "None"
          THEN /\ pc' = "ERROR"
               /\ response' = ErrorResponse(request, err)
          ELSE /\ pc' = "EXTRACTING"
               /\ UNCHANGED response
    /\ UNCHANGED <<calls, request, invoked, result, quote_en, data, search_items,
                   candidates_for_matching, top_k_candidates, candidate_results,
                   best_candidate, max_distortion_prob, max_distortion_score,
                   label, raised>>
    /\ UNCHANGED <<cse_vars, merge_vars, dedup_vars, fn_vars>>

\* what the tagger can do with the article: "fail" (loading or inference
\* raised), "noper" (no PER entity survives), "per".  An article of white
\* space only has no sentence, so no entity.
TaggerOutcomes(article) ==
    IF article = "blank" THEN {"fail", "noper"} ELSE {"fail", "noper", "per"}

\* whether a LOC entity is among the extracted ones
LocOutcomes(article) == IF article = "blank" THEN {0} ELSE {0, 1}

\* Step 2, first half: extract_entities_only inside build_queries_from_text
ExtractEntities ==
    /\ pc = "EXTRACTING"
    /\ invoked' = invoked \cup {"tagger"}
    /\ \E o \in TaggerOutcomes(request.article_text) :
        IF o = "fail"
        THEN /\ pc' = "ERROR"
             /\ response' = ErrorResponse(request, "Pipeline failed")
             /\ UNCHANGED result
        ELSE /\ pc' = "QUERYING"
             /\ \E l \in LocOutcomes(request.article_text) :
                   result' = [result EXCEPT !.per = IF o = "per" THEN 1 ELSE 0,
                                            !.loc = l]
             /\ UNCHANGED response
    /\ UNCHANGED <<calls, request, quote_en, data, search_items,
                   candidates_for_matching, top_k_candidates, candidate_results,
                   best_candidate, max_distortion_prob, max_distortion_score,
                   label, raised>>
    /\ UNCHANGED <<cse_vars, merge_vars, dedup_vars, fn_vars>>

\* variant: without a PER entity the query is built from the locations
QueryOutcomesFromLocations(per) ==
    IF per = 0
    THEN (IF result.loc = 1 THEN { [ko |-> "ko", en |-> "en"] } ELSE { [ko |-> "", en |-> ""] })
    ELSE [ko : {"", "ko"}, en : {"", "en"}]

\* generate_search_query: without a PER entity both queries are None
\* (query_builder.py:87-89); with one, either query may still come out empty
\* after token deduplication and is then None (query_builder.py:161).
QueryOutcomes(per) ==
    IF per = 0
    THEN { [ko |-> "", en |-> ""] }
    ELSE [ko : {"", "ko"}, en : {"", "en"}]

\* variant: the quote is not translated after the queries are built
BuildQueriesSkipsTranslation ==
    /\ pc = "QUERYING"
    /\ invoked' = IF result.per = 0 THEN invoked
                  ELSE invoked \cup {"resolver", "translator"}
    /\ \E q \in QueryOutcomes(result.per) :
        result' = [result EXCEPT !.queries = q]
    /\ pc' = "QUERY_SELECT"
    /\ UNCHANGED <<calls, request, quote_en, data, search_items,
                   candidates_for_matching, top_k_candidates, candidate_results,
                   best_candidate, max_distortion_prob, max_distortion_score,
                   label, response, raised>>
    /\ UNCHANGED <<cse_vars, merge_vars, dedup_vars, fn_vars>>

\* Step 2, second half: generate_search_query inside build_queries_from_text
BuildQueries ==
    /\ pc = "QUERYING"
    /\ invoked' = IF result.per = 0 THEN invoked
                  ELSE invoked \cup {"resolver", "translator"}
    /\ \E q \in QueryOutcomes(result.per) :
        result' = [result EXCEPT !.queries = q]
    /\ pc' = "TRANSLATING"
    /\ UNCHANGED <<calls, request, quote_en, data, search_items,
                   candidates_for_matching, top_k_candidates, candidate_results,
                   best_candidate, max_distortion_prob, max_distortion_score,
                   label, response, raised>>
    /\ UNCHANGED <<cse_vars, merge_vars, dedup_vars, fn_vars>>

\* variant: the fallback is the empty text
TranslatedQuoteNoFallback(req, ok) == IF ok THEN "translated" ELSE ""

\* Step 3 (backend_api.py:194-198): the translation, or the quote itself
TranslatedQuote(req, ok) == IF ok THEN "translated" ELSE req.quote_content

\* Step 3 (backend_api.py:194-198)
Translate ==
    /\ pc = "TRANSLATING"
    /\ invoked' = invoked \cup {"translator"}
    /\ \E ok \in BOOLEAN :
          /\ quote_en' = TranslatedQuote(request, ok)
          /\ calls' = [calls EXCEPT !.translator = IF ok THEN "returned" ELSE "raised"]
    /\ pc' = "QUERY_SELECT"
    /\ UNCHANGED <<request, result, data, search_items,
                   candidates_for_matching, top_k_candidates, candidate_results,
                   best_candidate, max_distortion_prob, max_distortion_score,
                   label, response, raised>>
    /\ UNCHANGED <<cse_vars, merge_vars, dedup_vars, fn_vars>>

\* queries.get("en") or queries.get("ko")
ChosenQuery(queries) == IF Truthy(queries.en) THEN queries.en ELSE queries.ko

\* Step 4 (backend_api.py:207-226): pick the query and call google_cse_search
SelectQuery ==
    /\ pc = "QUERY_SELECT"
    /\ IF ~Truthy(ChosenQuery(result.queries))
       THEN /\ pc' = "ERROR"
            /\ response' = ErrorResponse(request, "Could not generate search query")
            /\ UNCHANGED <<invoked, cse_vars>>
       ELSE /\ pc' = "SEARCHING"
            /\ invoked' = invoked \cup {"search"}
            /\ cse_pc' = "loop"
            /\ cse_retries' = DefaultRetries
            /\ cse_attempt' = 0
            /\ cse_log' = << >>
            /\ cse_result' = NoResult
            /\ cse_caller' = "api"
            /\ UNCHANGED response
    /\ UNCHANGED <<calls, request, result, quote_en, data, search_items,
                   candidates_for_matching, top_k_candidates, candidate_results,
                   best_candidate, max_distortion_prob, max_distortion_score,
                   label, raised>>
    /\ UNCHANGED <<merge_vars, dedup_vars, fn_vars>>

\* data.get("items", []) or []
ItemsOf(d) == IF d.hasItems THEN d.items ELSE << >>

\* variant: the empty result list is not detected
NoSearchResultsNever(items) == FALSE

\* `if not search_items` (backend_api.py:238)
NoSearchResults(items) == items = << >>

\* Step 4, after the call (backend_api.py:227-246)
SearchReturn ==
    /\ pc = "SEARCHING"
    /\ cse_caller = "api"
    /\ cse_pc \in {"returned", "raised"}
    /\ IF cse_pc = "raised"
       THEN /\ pc' = "ERROR"
            /\ response' = ErrorResponse(request, "Search failed")
            /\ UNCHANGED <<data, search_items>>
       ELSE /\ data' = cse_result
            /\ search_items' = ItemsOf(cse_result)
            /\ IF NoSearchResults(ItemsOf(cse_result))
               THEN /\ pc' = "ERROR"
                    /\ response' = ErrorResponse(request, "No search results found")
               ELSE /\ pc' = "PREPARING"
                    /\ UNCHANGED response
    /\ cse_pc' = "idle"
    /\ cse_retries' = 0
    /\ cse_attempt' = 0
    /\ cse_log' = << >>
    /\ cse_result' = NoResult
    /\ cse_caller' = "none"
    /\ UNCHANGED <<calls, request, invoked, result, quote_en,
                   candidates_for_matching, top_k_candidates, candidate_results,
                   best_candidate, max_distortion_prob, max_distortion_score,
                   label, raised>>
    /\ UNCHANGED <<merge_vars, dedup_vars, fn_vars>>

\* item.get("link") or item.get("formattedUrl")
ItemUrl(item) == IF Truthy(item.link) THEN item.link ELSE item.formattedUrl

\* `url and snippet and len(snippet.strip()) > 0` on an item whose snippet is
\* not a string: .strip() raises once url and snippet are both truthy
ItemRaises(item) == Truthy(ItemUrl(item)) /\ item.snippet = "bad"

ItemUsable(item) ==
    Truthy(ItemUrl(item)) /\ Truthy(item.snippet) /\ ~StripsToEmpty(item.snippet)

RECURSIVE CandidatesForMatching(_)
CandidatesForMatching(items) ==
    IF items = << >> THEN << >>
    ELSE LET item == Head(items)
         IN (IF ItemUsable(item)
             THEN << [url |-> ItemUrl(item), snippet |-> item.snippet] >>
             ELSE << >>) \o CandidatesForMatching(Tail(items))

\* Step 5, part 1 (backend_api.py:258-268).  This loop is not inside one of
\* the per-step try blocks: what it raises reaches the handler around the
\* whole body.
PrepareCandidates ==
    /\ pc = "PREPARING"
    /\ IF \E i \in 1..Len(search_items) : ItemRaises(search_items[i])
       THEN LET h == TopLevelHandler(request)
            IN /\ pc' = "ERROR"
               /\ response' = h.response
               /\ raised' = h.raised
               /\ UNCHANGED candidates_for_matching
       ELSE /\ candidates_for_matching' = CandidatesForMatching(search_items)
            /\ pc' = "MATCHING"
            /\ UNCHANGED <<response, raised>>
    /\ UNCHANGED <<calls, request, invoked, result, quote_en, data, search_items,
                   top_k_candidates, candidate_results,
                   best_candidate, max_distortion_prob, max_distortion_score,
                   label>>
    /\ UNCHANGED <<cse_vars, merge_vars, dedup_vars, fn_vars>>

\* what the embedder does for one candidate: it raises, or the best span of
\* the snippet has similarity sim to the quote span
EmbedOutcomes == { [ok |-> FALSE, sim |-> 0] } \cup { [ok |-> TRUE, sim |-> v] : v \in SimSet }

\* find_best_match_span_in_snippet, by the kind of snippet: no sentence
\* survives the length filter of a "short" snippet, the embedder decides a
\* "text" one.  NoSpan stands for a None result.
NoSpan == [url |-> "", best_sentence |-> "", best_score |-> 0, span_text |-> ""]

FindBestMatchSpanInSnippet(snippet, url, outcome) ==
    IF ~Truthy(snippet) THEN NoSpan
    ELSE IF snippet # "text" THEN NoSpan
    ELSE IF ~outcome.ok THEN NoSpan
    ELSE [url |-> url, best_sentence |-> "sentence", best_score |-> outcome.sim,
          span_text |-> "span"]

\* variant: the score filter is left out
RECURSIVE GlobalCandidatesNoFilter(_, _, _)
GlobalCandidatesNoFilter(cands, outcomes, min_score) ==
    IF cands = << >> THEN << >>
    ELSE LET cand == Head(cands)
             span_res == FindBestMatchSpanInSnippet(cand.snippet, cand.url, Head(outcomes))
             rest == GlobalCandidatesNoFilter(Tail(cands), Tail(outcomes), min_score)
         IN IF ~Truthy(cand.url) THEN rest
            ELSE IF span_res = NoSpan THEN rest
            ELSE <<span_res>> \o rest

\* the per-candidate loop of find_best_span_from_candidates_debug
RECURSIVE GlobalCandidates(_, _, _)
GlobalCandidates(cands, outcomes, min_score) ==
    IF cands = << >> THEN << >>
    ELSE LET cand == Head(cands)
             span_res == FindBestMatchSpanInSnippet(cand.snippet, cand.url, Head(outcomes))
             rest == GlobalCandidates(Tail(cands), Tail(outcomes), min_score)
         IN IF ~Truthy(cand.url) THEN rest
            ELSE IF span_res = NoSpan THEN rest
            ELSE IF span_res.best_score < min_score THEN rest
            ELSE <<span_res>> \o rest

\* variant: ascending order
RECURSIVE InsertAscending(_, _)
InsertAscending(sorted, x) ==
    IF sorted = << >> THEN <<x>>
    ELSE IF Head(sorted).best_score <= x.best_score
    THEN <<Head(sorted)>> \o InsertAscending(Tail(sorted), x)
    ELSE <<x>> \o sorted

\* sorted(..., key=best_score, reverse=True): stable, descending
RECURSIVE InsertDesc(_, _)
InsertDesc(sorted, x) ==
    IF sorted = << >> THEN <<x>>
    ELSE IF Head(sorted).best_score >= x.best_score
    THEN <<Head(sorted)>> \o InsertDesc(Tail(sorted), x)
    ELSE <<x>> \o sorted

RECURSIVE SortedDesc(_)
SortedDesc(seq) ==
    IF seq = << >> THEN << >>
    ELSE InsertDesc(SortedDesc(SubSeq(seq, 1, Len(seq) - 1)), seq[Len(seq)])

\* find_best_span_from_candidates_debug: the sorted list it attaches to the
\* best span as top_k_candidates; << >> stands for the None result
FindBestSpanFromCandidatesDebug(cands, outcomes, min_score) ==
    SortedDesc(GlobalCandidates(cands, outcomes, min_score))

\* the value find_best_span_from_candidates_debug returns: None, or the first
\* of the sorted candidates with the sorted list attached
NoBestGlobal == [none |-> TRUE]

BestGlobal(sorted_candidates) ==
    IF sorted_candidates = << >> THEN NoBestGlobal
    ELSE [none |-> FALSE, best |-> sorted_candidates[1],
          top_k_candidates |-> sorted_candidates]

\* variant: a failed match is reported with the message of an empty search
MatchReportsNoResults ==
    /\ pc = "MATCHING"
    /\ invoked' = invoked \cup {"matcher"}
    /\ calls' = [calls EXCEPT !.matcher = quote_en]
    /\ \E outcomes \in [1..Len(candidates_for_matching) -> EmbedOutcomes] :
        /\ \A i \in 1..Len(candidates_for_matching) :
              candidates_for_matching[i].snippet # "text" => outcomes[i] = [ok |-> FALSE, sim |-> 0]
        /\ LET top == FindBestSpanFromCandidatesDebug(candidates_for_matching, outcomes,
                                                      ApiMinScore)
           IN IF top = << >>
              THEN /\ pc' = "ERROR"
                   /\ response' = ErrorResponse(request, "No search results found")
                   /\ UNCHANGED top_k_candidates
              ELSE /\ pc' = "SCORING"
                   /\ top_k_candidates' = top
                   /\ UNCHANGED response
    /\ UNCHANGED <<request, result, quote_en, data, search_items,
                   candidates_for_matching, candidate_results,
                   best_candidate, max_distortion_prob, max_distortion_score,
                   label, raised>>
    /\ UNCHANGED <<cse_vars, merge_vars, dedup_vars, fn_vars>>

\* Step 5, part 2 (backend_api.py:272-298)
Match ==
    /\ pc = "MATCHING"
    /\ invoked' = invoked \cup {"matcher"}
    /\ calls' = [calls EXCEPT !.matcher = quote_en]
    /\ \E outcomes \in [1..Len(candidates_for_matching) -> EmbedOutcomes] :
        /\ \A i \in 1..Len(candidates_for_matching) :
              candidates_for_matching[i].snippet # "text" => outcomes[i] = [ok |-> FALSE, sim |-> 0]
        /\ LET top == FindBestSpanFromCandidatesDebug(candidates_for_matching, outcomes,
                                                      ApiMinScore)
           IN IF top = << >>
              THEN /\ pc' = "ERROR"
                   /\ response' = ErrorResponse(request, "No matching spans found")
                   /\ UNCHANGED top_k_candidates
              ELSE /\ pc' = "SCORING"
                   /\ top_k_candidates' = top
                   /\ UNCHANGED response
    /\ UNCHANGED <<request, result, quote_en, data, search_items,
                   candidates_for_matching, candidate_results,
                   best_candidate, max_distortion_prob, max_distortion_score,
                   label, raised>>
    /\ UNCHANGED <<cse_vars, merge_vars, dedup_vars, fn_vars>>

\* what score_quote_pair does for one pair: it raises, or answers
\* prob_distorted
ClassifierOutcomes == { [ok |-> FALSE, prob |-> 0] } \cup { [ok |-> TRUE, prob |-> p] : p \in ProbSet }

\* score_quote_pair: is_distorted = prob_distorted >= 0.5
IsDistorted(prob) == IF prob >= 50000 THEN "True" ELSE "False"

\* variant: a failed scoring leaves a score of zero
CandidateResultZeroOnFailure(idx, cand, outcome) ==
    LET span_text == IF Truthy(cand.span_text) THEN cand.span_text ELSE cand.best_sentence
        scored == Truthy(span_text) /\ outcome.ok
    IN [candidate_index |-> idx,
        original_span |-> span_text,
        similarity_score |-> RoundTenth(cand.best_score),
        source_url |-> cand.url,
        best_sentence |-> cand.best_sentence,
        distortion_score |-> IF scored THEN outcome.prob ELSE 0,
        is_distorted |-> IF scored THEN IsDistorted(outcome.prob) ELSE "False"]

\* the CandidateResult built for the candidate at position idx (0-based)
CandidateResult(idx, cand, outcome) ==
    LET span_text == IF Truthy(cand.span_text) THEN cand.span_text ELSE cand.best_sentence
        scored == Truthy(span_text) /\ outcome.ok
    IN [candidate_index |-> idx,
        original_span |-> span_text,
        similarity_score |-> RoundTenth(cand.best_score),
        source_url |-> cand.url,
        best_sentence |-> cand.best_sentence,
        distortion_score |-> IF scored THEN outcome.prob ELSE NoScore,
        is_distorted |-> IF scored THEN IsDistorted(outcome.prob) ELSE "None"]

\* Step 6 (backend_api.py:307-346): one iteration of the loop over
\* top_k_candidates[:request.top_matches]
ScoreCandidate ==
    /\ pc = "SCORING"
    /\ LET todo == SliceTo(top_k_candidates, request.top_matches)
           idx == Len(candidate_results)
       IN /\ idx < Len(todo)
          /\ \E outcome \in ClassifierOutcomes :
                /\ candidate_results' =
                      Append(candidate_results, CandidateResult(idx, todo[idx + 1], outcome))
                /\ calls' = [calls EXCEPT !.classifier = quote_en,
                                          !.classifier_raised =
                                              IF outcome.ok THEN @ ELSE @ \cup {idx}]
    /\ invoked' = invoked \cup {"classifier"}
    /\ UNCHANGED <<pc, request, result, quote_en, data, search_items,
                   candidates_for_matching, top_k_candidates,
                   best_candidate, max_distortion_prob, max_distortion_score,
                   label, response, raised>>
    /\ UNCHANGED <<cse_vars, merge_vars, dedup_vars, fn_vars>>

\* the loop of backend_api.py:351-356
RECURSIVE MaxDistortionProb(_, _)
MaxDistortionProb(cands, acc) ==
    IF cands = << >> THEN acc
    ELSE LET c == Head(cands)
         IN IF c.distortion_score = NoScore
            THEN MaxDistortionProb(Tail(cands), acc)
            ELSE IF acc = NoScore \/ c.distortion_score > acc
            THEN MaxDistortionProb(Tail(cands), c.distortion_score)
            ELSE MaxDistortionProb(Tail(cands), acc)

\* round(max_distortion_prob * 100.0, 2), in units of 0.01
MaxDistortionScore(prob) == IF prob = NoScore THEN NoScore ELSE RoundTenth(prob)

\* variant: strict comparison
LabelOfStrict(score) ==
    IF score = NoScore THEN "None"
    ELSE IF score > 5000 THEN "distorted" ELSE "normal"

\* "distorted" if max_distortion_score >= 50.0 else "normal"
LabelOf(score) ==
    IF score = NoScore THEN "None"
    ELSE IF score >= 5000 THEN "distorted" ELSE "normal"

\* backend_api.py:348-364, after the scoring loop
ComputeLabel ==
    /\ pc = "SCORING"
    /\ Len(candidate_results) = Len(SliceTo(top_k_candidates, request.top_matches))
    /\ best_candidate' = IF candidate_results # << >> THEN candidate_results[1] ELSE NoCand
    /\ LET p == MaxDistortionProb(candidate_results, NoScore)
       IN /\ max_distortion_prob' = p
          /\ max_distortion_score' = MaxDistortionScore(p)
          /\ label' = LabelOf(MaxDistortionScore(p))
    /\ pc' = "RESPONDING"
    /\ UNCHANGED <<calls, request, invoked, result, quote_en, data, search_items,
                   candidates_for_matching, top_k_candidates, candidate_results,
                   response, raised>>
    /\ UNCHANGED <<cse_vars, merge_vars, dedup_vars, fn_vars>>

\* variant: a response without a label is flagged as an error
RespondFlagsUnscored ==
    /\ pc = "RESPONDING"
    /\ response' = QuoteResponse([quote_id |-> request.quote_id,
                                  quote_content |-> request.quote_content,
                                  candidates |-> candidate_results,
                                  best_candidate |-> best_candidate,
                                  max_distortion_score |-> max_distortion_score,
                                  label |-> label,
                                  error |-> IF label = "None" THEN "Distortion scoring failed" ELSE "None",
                                  debug_info |-> "None"])
    /\ pc' = "DONE"
    /\ UNCHANGED <<calls, request, invoked, result, quote_en, data, search_items,
                   candidates_for_matching, top_k_candidates, candidate_results,
                   best_candidate, max_distortion_prob, max_distortion_score,
                   label, raised>>
    /\ UNCHANGED <<cse_vars, merge_vars, dedup_vars, fn_vars>>

\* backend_api.py:374-383
Respond ==
    /\ pc = "RESPONDING"
    /\ response' = QuoteResponse([quote_id |-> request.quote_id,
                                  quote_content |-> request.quote_content,
                                  candidates |-> candidate_results,
                                  best_candidate |-> best_candidate,
                                  max_distortion_score |-> max_distortion_score,
                                  label |-> label,
                                  error |-> "None",
                                  debug_info |-> "None"])
    /\ pc' = "DONE"
    /\ UNCHANGED <<calls, request, invoked, result, quote_en, data, search_items,
                   candidates_for_matching, top_k_candidates, candidate_results,
                   best_candidate, max_distortion_prob, max_distortion_score,
                   label, raised>>
    /\ UNCHANGED <<cse_vars, merge_vars, dedup_vars, fn_vars>>

\* ------------------------------------------------------------------------
\* Character-level string helpers (a string is a sequence of characters)
\* ------------------------------------------------------------------------
MidDot == "MIDDOT"

\* str.replace("##", ""): left to right, non-overlapping
RECURSIVE RemoveMarkers(_)
RemoveMarkers(w) ==
    IF Len(w) >= 2 /\ w[1] = "#" /\ w[2] = "#" THEN RemoveMarkers(SubSeq(w, 3, Len(w)))
    ELSE IF w = << >> THEN << >>
    ELSE <<w[1]>> \o RemoveMarkers(Tail(w))

RECURSIVE LStrip(_)
LStrip(w) == IF w # << >> /\ w[1] = " " THEN LStrip(Tail(w)) ELSE w

RECURSIVE RStrip(_)
RStrip(w) ==
    IF w # << >> /\ w[Len(w)] = " " THEN RStrip(SubSeq(w, 1, Len(w) - 1)) ELSE w

\* str.strip()
Strip(w) == RStrip(LStrip(w))

\* the string with every character of the set removed
RECURSIVE RemoveChars(_, _)
RemoveChars(w, cs) ==
    IF w = << >> THEN << >>
    ELSE (IF w[1] \in cs THEN << >> ELSE <<w[1]>>) \o RemoveChars(Tail(w), cs)

RECURSIVE Concat(_)
Concat(ws) == IF ws = << >> THEN << >> ELSE Head(ws) \o Concat(Tail(ws))

\* Python's `a in b` on strings
IsSubstring(a, b) ==
    \E i \in 0..(Len(b) - Len(a)) : SubSeq(b, i + 1, i + Len(a)) = a

\* ------------------------------------------------------------------------
\* merge_ner_entities
\* ------------------------------------------------------------------------

\* src/qdd2/config.py:41
NER_LABELS == {"PER", "ORG", "LOC", "DAT", "AFW"}

\* A token's "entity" string is written as the list of the parts that
\* split("-") gives: "PER-B" is <<"PER", "B">>, "O" is <<"O">>.
\* parts[0] if parts else ""
EntityType(tok) == IF tok.entity = << >> THEN "" ELSE tok.entity[1]

\* parts[1] if len(parts) > 1 else "B"
TagType(tok) == IF Len(tok.entity) > 1 THEN tok.entity[2] ELSE "B"

\* variant: the adjacency test misses the one-character gap
AdjacentNoGap(prev, ent) == ent.start <= prev.end

\* ent["start"] <= buffer[-1]["end"] + 1
Adjacent(prev, ent) == ent.start <= prev.end + 1

Flush(st) == IF st.buffer # << >> THEN Append(st.groups, st.buffer) ELSE st.groups

\* One iteration of the grouping loop (entities.py:30-65) on token number i.
\* st = [groups, buffer]; both hold token positions.
MergeStep(toks, st, i) ==
    LET ent == toks[i]
    IN IF EntityType(ent) \notin NER_LABELS
       THEN st
       ELSE IF TagType(ent) = "B"
       THEN [groups |-> Flush(st), buffer |-> <<i>>]
       ELSE IF TagType(ent) = "I" /\ st.buffer # << >>
       THEN LET prev == toks[st.buffer[Len(st.buffer)]]
            IN IF EntityType(ent) = EntityType(prev) /\ Adjacent(prev, ent)
               THEN [groups |-> st.groups, buffer |-> Append(st.buffer, i)]
               ELSE [groups |-> Append(st.groups, st.buffer), buffer |-> <<i>>]
       ELSE [groups |-> Flush(st), buffer |-> << >>]

RECURSIVE MergeLoop(_, _, _)
MergeLoop(toks, st, i) ==
    IF i > Len(toks) THEN st ELSE MergeLoop(toks, MergeStep(toks, st, i), i + 1)

\* merged_groups after the loop and the final flush (entities.py:67-69)
MergedGroups(toks) == Flush(MergeLoop(toks, [groups |-> << >>, buffer |-> << >>], 1))

\* "".join(word.replace("##", "") for each token of the group).strip()
GroupWord(toks, group) ==
    Strip(Concat([k \in 1..Len(group) |-> RemoveMarkers(toks[group[k]].word)]))

\* variant: only the length filter
KeepsWordLengthOnly(word) == Len(word) >= 2

\* the three filters of entities.py:83-88
KeepsWord(word) ==
    /\ ~(Len(word) < 2)
    /\ ~(Len(word) = 1 /\ word[1] \in {"\"", "'", "(", ")", "[", "]", "{", "}", ",", ".", "!", "?"})
    /\ RemoveChars(word, {" ", "-", MidDot}) # << >>

RECURSIVE AssembleEntities(_, _)
AssembleEntities(toks, groups) ==
    IF groups = << >> THEN << >>
    ELSE LET group == Head(groups)
             word == GroupWord(toks, group)
         IN (IF KeepsWord(word)
             THEN << [label |-> EntityType(toks[group[1]]), word |-> word] >>
             ELSE << >>) \o AssembleEntities(toks, Tail(groups))

\* the whole call
MergeNerEntities ==
    /\ m_pc = "call"
    /\ merged_groups' = MergedGroups(tokens)
    /\ merged_entities' = AssembleEntities(tokens, MergedGroups(tokens))
    /\ m_pc' = "done"
    /\ UNCHANGED tokens
    /\ UNCHANGED <<cse_vars, api_vars, dedup_vars, fn_vars>>

MergeOff ==
    /\ m_pc = "off"
    /\ tokens = << >>
    /\ merged_groups = << >>
    /\ merged_entities = << >>

\* the tagger's answers: tag, word piece and the distance of its start from
\* the end of the token before it (0: same word, 1: after one space)
Tok(e, w, g) == [entity |-> e, word |-> w, gap |-> g]

TokenPool ==
    { Tok(<<"PER", "B">>, <<"a">>, 1),
      Tok(<<"PER", "B">>, <<"a", "b">>, 1),
      Tok(<<"PER", "B">>, <<"-">>, 1),
      Tok(<<"PER", "B">>, <<"!">>, 1),
      Tok(<<"LOC", "B">>, <<"a">>, 1),
      Tok(<<"LOC", "B">>, <<"c", "d">>, 1),
      Tok(<<"PER", "I">>, <<"#", "#", "b">>, 0),
      Tok(<<"PER", "I">>, <<"b">>, 1),
      Tok(<<"PER", "I">>, <<"b">>, 2),
      Tok(<<"PER", "I">>, <<"-">>, 1),
      Tok(<<"PER", "I">>, <<"!">>, 0),
      Tok(<<"LOC", "I">>, <<"d">>, 1),
      Tok(<<"O">>, <<"x">>, 1),
      Tok(<<"PER">>, <<"a", "b">>, 1) }

\* character offsets as the tokenizer reports them: end is exclusive
RECURSIVE WithOffsets(_, _)
WithOffsets(ts, prevEnd) ==
    IF ts = << >> THEN << >>
    ELSE LET t == Head(ts)
             start == prevEnd + t.gap
             end == start + Len(RemoveMarkers(t.word))
         IN << [entity |-> t.entity, word |-> t.word, start |-> start, end |-> end] >>
            \o WithOffsets(Tail(ts), end)

TokenLists ==
    { WithOffsets(ts, 0) : ts \in UNION { [1..n -> TokenPool] : n \in 0..MaxTokens } }

\* ------------------------------------------------------------------------
\* extract_entities_only: deduplication by containment
\* ------------------------------------------------------------------------

\* the character class of text_utils.py:37, r"[·‧ㆍ\\-_/\\s]": three dots,
\* the range from backslash to underscore, the slash, and the letter s
NormalizeRemoved == {MidDot, "HYPHENPOINT", "ARAEA", "\\", "]", "^", "_", "/", "s"}

\* str.lower() on the letters of the examples
LowerChar(c) ==
    CASE c = "A" -> "a"
      [] c = "B" -> "b"
      [] c = "S" -> "s"
      [] OTHER -> c

\* normalize_korean_phrase
NormalizeKoreanPhrase(w) ==
    LET removed == RemoveChars(w, NormalizeRemoved)
    IN [k \in 1..Len(removed) |-> LowerChar(removed[k])]

\* `a in b and a != b`
StrictlyInside(a, b) == IsSubstring(a, b) /\ a # b

RECURSIVE SelectWords(_, _)
SelectWords(ws, seen) ==
    IF ws = << >> THEN << >>
    ELSE (IF NormalizeKoreanPhrase(Head(ws)) # seen THEN <<Head(ws)>> ELSE << >>)
         \o SelectWords(Tail(ws), seen)

\* variant: the shorter form is left in the lists
RemoveShorterKeeps(ebt, seen) == ebt

\* keywords.py:67-70: drop from every label's list the words whose normal
\* form is seen
RemoveShorter(ebt, seen) ==
    [lbl \in DOMAIN ebt |-> SelectWords(ebt[lbl], seen)]

InSeq(x, seq) == \E k \in 1..Len(seq) : seq[k] = x

\* keywords.py:77-81: setdefault and append unless already listed
Admit(ebt, lbl, word) ==
    LET cur == IF lbl \in DOMAIN ebt THEN ebt[lbl] ELSE << >>
        new == IF InSeq(word, cur) THEN cur ELSE Append(cur, word)
    IN [l \in DOMAIN ebt \cup {lbl} |-> IF l = lbl THEN new ELSE ebt[l]]

\* The outer loop takes the next entity and snapshots list(seen_normalized).
DedupNextEntity ==
    /\ d_pc = "entity"
    /\ d_idx < Len(entities)
    /\ d_pending' = seen_normalized
    /\ is_duplicate' = FALSE
    /\ d_pc' = "inner"
    /\ UNCHANGED <<entities, d_idx, seen_normalized, entities_by_type>>
    /\ UNCHANGED <<cse_vars, api_vars, merge_vars, fn_vars>>

\* One iteration of `for seen in list(seen_normalized)`; the order in which
\* a set is listed is not fixed, so any pending element may come next.
DedupInner ==
    /\ d_pc = "inner"
    /\ \E seen \in d_pending :
        LET normalized == NormalizeKoreanPhrase(entities[d_idx + 1].word)
        IN IF StrictlyInside(normalized, seen)
           THEN /\ is_duplicate' = TRUE
                /\ d_pending' = {}                                  \* break
                /\ UNCHANGED <<seen_normalized, entities_by_type>>
           ELSE IF StrictlyInside(seen, normalized)
           THEN /\ seen_normalized' = seen_normalized \ {seen}
                /\ entities_by_type' = RemoveShorter(entities_by_type, seen)
                /\ d_pending' = d_pending \ {seen}
                /\ UNCHANGED is_duplicate
           ELSE /\ d_pending' = d_pending \ {seen}
                /\ UNCHANGED <<is_duplicate, seen_normalized, entities_by_type>>
    /\ UNCHANGED <<d_pc, entities, d_idx>>
    /\ UNCHANGED <<cse_vars, api_vars, merge_vars, fn_vars>>

\* keywords.py:73-81, after the inner loop
DedupAdmit ==
    /\ d_pc = "inner"
    /\ d_pending = {}
    /\ LET ent == entities[d_idx + 1]
       IN IF is_duplicate
          THEN UNCHANGED <<seen_normalized, entities_by_type>>
          ELSE /\ seen_normalized' = seen_normalized \cup {NormalizeKoreanPhrase(ent.word)}
               /\ entities_by_type' = Admit(entities_by_type, ent.label, ent.word)
    /\ d_idx' = d_idx + 1
    /\ d_pc' = "entity"
    /\ UNCHANGED <<entities, d_pending, is_duplicate>>
    /\ UNCHANGED <<cse_vars, api_vars, merge_vars, fn_vars>>

\* keywords.py:84-87
DedupReturn ==
    /\ d_pc = "entity"
    /\ d_idx = Len(entities)
    /\ d_pc' = "done"
    /\ UNCHANGED <<entities, d_idx, d_pending, is_duplicate, seen_normalized,
                   entities_by_type>>
    /\ UNCHANGED <<cse_vars, api_vars, merge_vars, fn_vars>>

DedupOff ==
    /\ d_pc = "off"
    /\ entities = << >>
    /\ d_idx = 0
    /\ d_pending = {}
    /\ is_duplicate = FALSE
    /\ seen_normalized = {}
    /\ entities_by_type = << >>

\* entities as merge_ner_entities can return them: words of two characters
\* or more, stripped, not made of spaces, hyphens and middle dots only
Ent(l, w) == [label |-> l, word |-> w]

EntityPool ==
    { Ent("LOC", <<"a", "b">>),
      Ent("LOC", <<"a", "b", "c">>),
      Ent("PER", <<"a", "b">>),
      Ent("PER", <<"b", "c">>),
      Ent("PER", <<"A", "b">>),
      Ent("PER", <<"a", "_", "b">>),
      Ent("ORG", <<"a", "-", "b">>),
      Ent("ORG", <<"c", "a", "b", "s">>),
      Ent("ORG", <<"s", "S">>),
      Ent("ORG", <<"s", "s">>) }

EntityLists == UNION { [1..n -> EntityPool] : n \in 0..MaxEntities }

\* ------------------------------------------------------------------------
\* _dedupe_preserve (query_builder.py): tokens are sequences of characters
\* ------------------------------------------------------------------------

\* \w of a (unicode) regular expression: letters, digits and the underscore
WordChars == {"a", "b", "A", "B", "1", "_"}

\* \s
SpaceChars == {" "}

\* re.sub(r"[^\w\s]", " ", tok): what is neither \w nor \s becomes a space
RECURSIVE SubPunctuation(_)
SubPunctuation(tok) ==
    IF tok = << >> THEN << >>
    ELSE << IF Head(tok) \in WordChars \cup SpaceChars THEN Head(tok) ELSE " " >>
         \o SubPunctuation(Tail(tok))

\* str.lower(), character by character
RECURSIVE Lower(_)
Lower(tok) ==
    IF tok = << >> THEN << >>
    ELSE << CASE Head(tok) = "A" -> "a" [] Head(tok) = "B" -> "b" [] OTHER -> Head(tok) >>
         \o Lower(Tail(tok))

\* " ".join(s.split()): runs of whitespace become one space, none at the ends
RECURSIVE SqueezeSpaces(_)
SqueezeSpaces(w) ==
    IF w = << >> THEN << >>
    ELSE IF Head(w) = " " /\ (Len(w) = 1 \/ w[2] = " ") THEN SqueezeSpaces(Tail(w))
    ELSE <<Head(w)>> \o SqueezeSpaces(Tail(w))

SplitJoin(w) == LStrip(SqueezeSpaces(w))

\* _normalize_token
NormalizeToken(tok) == Strip(SplitJoin(Lower(SubPunctuation(tok))))

\* one iteration of `for item in t_seq`
DedupePreserveStep ==
    /\ t_pc = "loop"
    /\ t_idx < Len(t_seq)
    /\ t_idx' = t_idx + 1
    /\ LET item == t_seq[t_idx + 1]
           norm == NormalizeToken(item)
       IN IF item = << >> THEN UNCHANGED <<t_seen, t_out>>
          ELSE IF norm = << >> \/ norm \in t_seen THEN UNCHANGED <<t_seen, t_out>>
          ELSE /\ t_seen' = t_seen \cup {norm}
               /\ t_out' = Append(t_out, item)
    /\ UNCHANGED <<t_pc, t_seq>>
    /\ UNCHANGED <<cse_vars, api_vars, merge_vars, dedup_vars, span_vars, rank_vars, more_vars>>

\* `return t_out`
DedupePreserveReturn ==
    /\ t_pc = "loop"
    /\ t_idx = Len(t_seq)
    /\ t_pc' = "done"
    /\ UNCHANGED <<t_seq, t_idx, t_seen, t_out>>
    /\ UNCHANGED <<cse_vars, api_vars, merge_vars, dedup_vars, span_vars, rank_vars, more_vars>>

DedupeOff ==
    /\ t_pc = "off"
    /\ t_seq = << >>
    /\ t_idx = 0
    /\ t_seen = {}
    /\ t_out = << >>

\* the tokens a call may receive
QueryTokenPool ==
    { << >>,
      <<"a">>, <<"A">>, <<"a", "!">>, <<".">>, <<" ">>,
      <<"a", "b">>, <<"a", ".", "b">>, <<"a", " ", "b">>, <<"A", " ", " ", "B">>,
      <<"a", "_", "b">>, <<"b">>, <<"1">> }

QueryTokenLists == UNION { [1..n -> QueryTokenPool] : n \in 0..MaxSeq }

\* ------------------------------------------------------------------------
\* extract_span (snippet_matcher.py)
\* ------------------------------------------------------------------------

Max(a, b) == IF a >= b THEN a ELSE b
Min(a, b) == IF a <= b THEN a ELSE b

\* s[a:b] of Python for a >= 0: positions a .. b-1, counted from 0, a
\* negative b counted from the end
PySlice(s, a, b) ==
    LET stop == IF b >= 0 THEN Min(b, Len(s)) ELSE Max(Len(s) + b, 0)
    IN SubSeq(s, a + 1, stop)

\* sep.join(parts), as the list of pieces of the resulting string
RECURSIVE Join(_, _)
Join(sep, parts) ==
    IF parts = << >> THEN << >>
    ELSE IF Len(parts) = 1 THEN parts
    ELSE <<Head(parts), sep>> \o Join(sep, Tail(parts))

NoSpanResult == [raised |-> "None", span |-> << >>, start_idx |-> -1, end_idx |-> -1]

\* variant: the slice stops before end_idx
ExtractSpanExclusiveEnd(sents, center, before, after) ==
    LET n == Len(sents)
        s == Max(0, center - before)
        e == Min(n - 1, center + after)
    IN IF n = 0 THEN [NoSpanResult EXCEPT !.raised = "ValueError"]
       ELSE IF ~(0 <= center /\ center < n) THEN [NoSpanResult EXCEPT !.raised = "IndexError"]
       ELSE [raised |-> "None", span |-> Join(" ", PySlice(sents, s, e)),
             start_idx |-> s, end_idx |-> e]

\* extract_span(sentences, center_idx, num_before, num_after)
ExtractSpan(sents, center, before, after) ==
    LET n == Len(sents)
        s == Max(0, center - before)
        e == Min(n - 1, center + after)
    IN IF n = 0 THEN [NoSpanResult EXCEPT !.raised = "ValueError"]
       ELSE IF ~(0 <= center /\ center < n) THEN [NoSpanResult EXCEPT !.raised = "IndexError"]
       ELSE [raised |-> "None", span |-> Join(" ", PySlice(sents, s, e + 1)),
             start_idx |-> s, end_idx |-> e]

ExtractSpanCall ==
    /\ x_pc = "call"
    /\ x_ret' = ExtractSpan(sentences, center_idx, num_before, num_after)
    /\ x_pc' = "done"
    /\ UNCHANGED <<sentences, center_idx, num_before, num_after>>
    /\ UNCHANGED <<cse_vars, api_vars, merge_vars, dedup_vars, dedupe_vars, rank_vars, more_vars>>

SpanOff ==
    /\ x_pc = "off"
    /\ sentences = << >>
    /\ center_idx = 0
    /\ num_before = 0
    /\ num_after = 0
    /\ x_ret = NoSpanResult

\* the sentence lists a call may receive: n distinct sentences
SentenceNames == <<"s0", "s1", "s2", "s3", "s4">>
SentenceLists == { SubSeq(SentenceNames, 1, n) : n \in 0..MaxSentences }

\* ------------------------------------------------------------------------
\* find_best_span_from_candidates_debug called on its own
\* ------------------------------------------------------------------------

RankCall ==
    /\ r_pc = "call"
    /\ r_ret' = BestGlobal(FindBestSpanFromCandidatesDebug(r_candidates, r_outcomes,
                                                           r_min_score))
    /\ r_pc' = "done"
    /\ UNCHANGED <<r_candidates, r_outcomes, r_min_score>>
    /\ UNCHANGED <<cse_vars, api_vars, merge_vars, dedup_vars, dedupe_vars, span_vars, more_vars>>

RankOff ==
    /\ r_pc = "off"
    /\ r_candidates = << >>
    /\ r_outcomes = << >>
    /\ r_min_score = 0
    /\ r_ret = NoBestGlobal

\* the candidates a call may receive
RankCandidatePool ==
    { [url |-> "", snippet |-> "text"], [url |-> "u1", snippet |-> "text"],
      [url |-> "u2", snippet |-> "text"], [url |-> "u3", snippet |-> "short"] }

RankCandidateLists == UNION { [1..n -> RankCandidatePool] : n \in 0..MaxItems }

\* similarities in units of 1e-5, and the thresholds a caller may pass
RankSims == {-1, 0, 12346, 40000, 90000}
RankOutcomes == { [ok |-> FALSE, sim |-> 0] } \cup { [ok |-> TRUE, sim |-> v] : v \in RankSims }
MinScores == {0, 12346, 40000}

\* ------------------------------------------------------------------------
\* The server process: the lru_cache'd loaders of models.py and
\* quote_mining.py, preload_models, and the loader calls of a request
\* ------------------------------------------------------------------------

Capabilities == {"tagger", "translator", "embedder", "classifier"}

\* functools.lru_cache keys a call by its positional and keyword arguments as
\* written: get_ner_pipeline() and get_ner_pipeline(device=0) are two keys
PreloadNerKey == "()"
RequestNerKey == "device=0"

\* a call of an lru_cache'd loader without arguments: a hit returns the cached
\* handle, a miss runs the body and stores what it returns
CachedLoad(cached, built, cap) ==
    IF cached THEN [cached |-> TRUE, built |-> built]
    ELSE [cached |-> TRUE, built |-> [built EXCEPT ![cap] = @ + 1]]

\* get_ner_pipeline called under the given key (maxsize=4, two keys in use)
GetNerPipeline(cache, built, key) ==
    IF key \in cache THEN [cache |-> cache, built |-> built]
    ELSE [cache |-> cache \cup {key}, built |-> [built EXCEPT !["tagger"] = @ + 1]]

\* get_quote_mining_model: a hit returns the cached handle; on a miss the body
\* runs, raises FileNotFoundError when the checkpoint is not a file, and an
\* exception is not cached
GetQuoteMiningModel(cached, built, file) ==
    IF cached THEN [cached |-> TRUE, built |-> built, ran |-> FALSE, raised |-> FALSE]
    ELSE IF file = "missing"
    THEN [cached |-> FALSE, built |-> built, ran |-> TRUE, raised |-> TRUE]
    ELSE [cached |-> TRUE, built |-> [built EXCEPT !["classifier"] = @ + 1],
          ran |-> TRUE, raised |-> FALSE]

\* preload_models, the startup handler
PreloadModels ==
    /\ srv_pc = "starting"
    /\ LET ner == GetNerPipeline(ner_cache, constructed, PreloadNerKey)
           tr == CachedLoad(translation_cache, ner.built, "translator")
           sb == CachedLoad(sentence_cache, tr.built, "embedder")
           qm == GetQuoteMiningModel(quote_mining_cache, sb.built, ckpt)
       IN /\ ner_cache' = ner.cache
          /\ translation_cache' = tr.cached
          /\ sentence_cache' = sb.cached
          /\ quote_mining_cache' = qm.cached
          /\ constructed' = qm.built
          /\ load_attempts' = [load_attempts EXCEPT !.startup = IF qm.ran THEN @ + 1 ELSE @]
    /\ srv_pc' = "serving"
    /\ UNCHANGED <<ckpt, rq_pc, rq_top_k, rq_results, rq_response, served>>
    /\ UNCHANGED <<old_vars, not_server_vars>>

\* a request arrives
RequestStart ==
    /\ srv_pc = "serving"
    /\ rq_pc = "idle"
    /\ served < MaxRequests
    /\ served' = served + 1
    /\ rq_pc' = "tag"
    /\ rq_top_k' = << >>
    /\ rq_results' = << >>
    /\ UNCHANGED <<srv_pc, ckpt, ner_cache, translation_cache, sentence_cache,
                   quote_mining_cache, constructed, load_attempts, rq_response>>
    /\ UNCHANGED <<old_vars, not_server_vars>>

\* extract_ner_entities: get_ner_pipeline(device=device), with device=0 from
\* find_quote_origin; the request goes on or ends in an error response
RequestTag ==
    /\ rq_pc = "tag"
    /\ LET ner == GetNerPipeline(ner_cache, constructed, RequestNerKey)
       IN /\ ner_cache' = ner.cache
          /\ constructed' = ner.built
    /\ rq_pc' \in {"translate", "idle"}
    /\ UNCHANGED <<srv_pc, ckpt, translation_cache, sentence_cache, quote_mining_cache,
                   load_attempts, rq_top_k, rq_results, rq_response, served>>
    /\ UNCHANGED <<old_vars, not_server_vars>>

\* translate_ko_to_en: get_translation_models()
RequestTranslate ==
    /\ rq_pc = "translate"
    /\ LET tr == CachedLoad(translation_cache, constructed, "translator")
       IN /\ translation_cache' = tr.cached
          /\ constructed' = tr.built
    /\ rq_pc' \in {"embed", "idle"}
    /\ UNCHANGED <<srv_pc, ckpt, ner_cache, sentence_cache, quote_mining_cache,
                   load_attempts, rq_top_k, rq_results, rq_response, served>>
    /\ UNCHANGED <<old_vars, not_server_vars>>

\* the spans a request may have ranked
ServerSpan(u, v) == [url |-> u, best_sentence |-> "sentence", best_score |-> v, span_text |-> "span"]
ServerSpanLists ==
    { <<ServerSpan("u1", 12346)>>, <<ServerSpan("u1", 12346), ServerSpan("u2", 0)>>,
      <<ServerSpan("u1", 12346), ServerSpan("u2", 0), ServerSpan("u3", 0)>>,
      <<ServerSpan("u1", 12346), ServerSpan("u2", 0), ServerSpan("u3", 0), ServerSpan("u4", 0)>> }

\* find_best_match_span_in_snippet: get_sentence_model(); the request ranks
\* some spans or ends in an error response
RequestEmbed ==
    /\ rq_pc = "embed"
    /\ LET sb == CachedLoad(sentence_cache, constructed, "embedder")
       IN /\ sentence_cache' = sb.cached
          /\ constructed' = sb.built
    /\ \/ /\ rq_pc' = "score"
          /\ \E spans \in ServerSpanLists :
                /\ Len(spans) <= MaxItems
                /\ rq_top_k' = spans
       \/ /\ rq_pc' = "idle"
          /\ UNCHANGED rq_top_k
    /\ UNCHANGED <<srv_pc, ckpt, ner_cache, translation_cache, quote_mining_cache,
                   load_attempts, rq_results, rq_response, served>>
    /\ UNCHANGED <<old_vars, not_server_vars>>

\* score_quote_pair for the next candidate, inside the try block of
\* find_quote_origin: the loader is called first, then the model
RequestScore ==
    /\ rq_pc = "score"
    /\ Len(rq_results) < Len(rq_top_k)
    /\ LET idx == Len(rq_results)
           qm == GetQuoteMiningModel(quote_mining_cache, constructed, ckpt)
       IN /\ quote_mining_cache' = qm.cached
          /\ constructed' = qm.built
          /\ load_attempts' = [load_attempts EXCEPT !.requests = IF qm.ran THEN @ + 1 ELSE @]
          /\ \E outcome \in ClassifierOutcomes :
                /\ qm.raised => ~outcome.ok
                /\ rq_results' = Append(rq_results,
                                        CandidateResult(idx, rq_top_k[idx + 1], outcome))
    /\ UNCHANGED <<srv_pc, ckpt, ner_cache, translation_cache, sentence_cache,
                   rq_pc, rq_top_k, rq_response, served>>
    /\ UNCHANGED <<old_vars, not_server_vars>>

\* the label and the response of a request that reached scoring
RequestRespond ==
    /\ rq_pc = "score"
    /\ Len(rq_results) = Len(rq_top_k)
    /\ LET score == MaxDistortionScore(MaxDistortionProb(rq_results, NoScore))
       IN rq_response' = [candidates |-> rq_results,
                          max_distortion_score |-> score,
                          label |-> LabelOf(score),
                          error |-> "None"]
    /\ rq_pc' = "idle"
    /\ UNCHANGED <<srv_pc, ckpt, ner_cache, translation_cache, sentence_cache,
                   quote_mining_cache, constructed, load_attempts, rq_top_k,
                   rq_results, served>>
    /\ UNCHANGED <<old_vars, not_server_vars>>

NoServerResponse ==
    [candidates |-> << >>, max_distortion_score |-> NoScore, label |-> "None",
     error |-> "no response"]

ServerOff ==
    /\ srv_pc = "off"
    /\ ckpt = "missing"
    /\ ner_cache = {}
    /\ translation_cache = FALSE
    /\ sentence_cache = FALSE
    /\ quote_mining_cache = FALSE
    /\ constructed = [c \in Capabilities |-> 0]
    /\ load_attempts = [startup |-> 0, requests |-> 0]
    /\ rq_pc = "idle"
    /\ rq_top_k = << >>
    /\ rq_results = << >>
    /\ rq_response = NoServerResponse
    /\ served = 0

\* ------------------------------------------------------------------------
\* resolve_person_name_en (name_resolution.py)
\* ------------------------------------------------------------------------

\* the names a call may receive: None, empty, white space, a key of
\* PERSON_NAME_LEXICON, a text that contains a key, a text that contains none
NameKinds == {"None", "", "blank", "exact", "partial", "unknown"}

\* what the knowledge base may do: the request raises, the function answers
\* an error dict, a dict with an English label, a dict whose "en" is None
WikidataOutcomes == {"raises", "fetch_error", "no_entry", "no_labels", "en", "ko_only"}

TranslateOutcomes == {"raises", "text", "empty"}

\* (name_ko or "").strip()
StrippedName(name) == IF name \in {"None", "", "blank"} THEN "" ELSE name

\* step 1: the exact and the partial lookup in PERSON_NAME_LEXICON
LexiconHit(name) == name \in {"exact", "partial"}

\* get_wikidata_english_name, by what the knowledge base does
GetWikidataEnglishName(outcome) ==
    CASE outcome = "raises" -> [raised |-> TRUE, en |-> "None"]
      [] outcome = "en" -> [raised |-> FALSE, en |-> "wikidata name"]
      [] OTHER -> [raised |-> FALSE, en |-> "None"]

\* variant: any answer of the knowledge base is taken as a name
WikidataGivesNameAlways(info) == ~info.raised

\* isinstance(info, dict) and info.get("en")
WikidataGivesName(info) == ~info.raised /\ Truthy(info.en)

NoNameResult == [raised |-> FALSE, value |-> "pending"]

\* the strip, the empty-name return and step 1
ResolveLexicon ==
    /\ n_pc = "lexicon"
    /\ IF StrippedName(name_ko) = ""
       THEN /\ n_ret' = [raised |-> FALSE, value |-> ""]
            /\ n_pc' = "done"
            /\ UNCHANGED consulted
       ELSE /\ consulted' = Append(consulted, "lexicon")
            /\ IF LexiconHit(name_ko)
               THEN /\ n_ret' = [raised |-> FALSE, value |-> "lexicon name"]
                    /\ n_pc' = "done"
               ELSE /\ n_pc' = "wikidata"
                    /\ UNCHANGED n_ret
    /\ UNCHANGED <<name_ko, wikidata_outcome, translate_outcome>>
    /\ UNCHANGED <<old_vars, not_resolve_vars>>

\* step 2
ResolveWikidata ==
    /\ n_pc = "wikidata"
    /\ consulted' = Append(consulted, "wikidata")
    /\ LET info == GetWikidataEnglishName(wikidata_outcome)
       IN IF WikidataGivesName(info)
          THEN /\ n_ret' = [raised |-> FALSE, value |-> info.en]
               /\ n_pc' = "done"
          ELSE /\ n_pc' = "translate"
               /\ UNCHANGED n_ret
    /\ UNCHANGED <<name_ko, wikidata_outcome, translate_outcome>>
    /\ UNCHANGED <<old_vars, not_resolve_vars>>

\* step 3
ResolveTranslate ==
    /\ n_pc = "translate"
    /\ consulted' = Append(consulted, "translator")
    /\ n_ret' = CASE translate_outcome = "raises" -> [raised |-> FALSE, value |-> name_ko]
                  [] translate_outcome = "text" -> [raised |-> FALSE, value |-> "translated name"]
                  [] OTHER -> [raised |-> FALSE, value |-> ""]
    /\ n_pc' = "done"
    /\ UNCHANGED <<name_ko, wikidata_outcome, translate_outcome>>
    /\ UNCHANGED <<old_vars, not_resolve_vars>>

ResolveOff ==
    /\ n_pc = "off"
    /\ name_ko = "None"
    /\ wikidata_outcome = "raises"
    /\ translate_outcome = "raises"
    /\ consulted = << >>
    /\ n_ret = NoNameResult

\* ------------------------------------------------------------------------
\* find_best_match_span_in_snippet called on its own (snippet_matcher.py)
\* ------------------------------------------------------------------------

\* cosine similarities, in units of 1e-5
SpanSims == {20000, 70000, 90000}

NoBestSpan == [none |-> TRUE]

\* the loop of lines 146-160: one span per center index 0 .. n-1
SpanCandidates(sents, before, after) ==
    [c \in 1..Len(sents) |->
        LET sp == ExtractSpan(sents, c - 1, before, after)
        IN [center_idx |-> c - 1, span_text |-> sp.span,
            span_start_idx |-> sp.start_idx, span_end_idx |-> sp.end_idx]]

\* variant: the last of the maximal values
ArgmaxLast(xs) ==
    (CHOOSE i \in 1..Len(xs) :
        /\ \A j \in 1..Len(xs) : xs[j] <= xs[i]
        /\ \A j \in (i + 1)..Len(xs) : xs[j] < xs[i]) - 1

\* torch.argmax: the index of the first maximal value, counted from 0
Argmax(xs) ==
    (CHOOSE i \in 1..Len(xs) :
        /\ \A j \in 1..Len(xs) : xs[j] <= xs[i]
        /\ \A j \in 1..(i - 1) : xs[j] < xs[i]) - 1

\* the whole call
FindBestMatchSpanCall ==
    /\ b_pc = "call"
    /\ b_pc' = "done"
    /\ IF b_sentences = << >>
       THEN /\ b_ret' = NoBestSpan
            /\ UNCHANGED span_meta
       ELSE IF b_encode = "raises"
       THEN /\ b_ret' = NoBestSpan
            /\ UNCHANGED span_meta
       ELSE LET cands == SpanCandidates(b_sentences, b_before, b_after)
                best_idx == Argmax(sims)
                meta == cands[best_idx + 1]
            IN /\ span_meta' = cands
               /\ b_ret' = [none |-> FALSE,
                            best_sentence |-> b_sentences[meta.center_idx + 1],
                            best_score |-> sims[best_idx + 1],
                            span_text |-> meta.span_text,
                            span_start_idx |-> meta.span_start_idx,
                            span_end_idx |-> meta.span_end_idx]
    /\ UNCHANGED <<b_sentences, b_before, b_after, b_encode, sims>>
    /\ UNCHANGED <<old_vars, not_best_vars>>

BestOff ==
    /\ b_pc = "off"
    /\ b_sentences = << >>
    /\ b_before = 0
    /\ b_after = 0
    /\ b_encode = "ok"
    /\ sims = << >>
    /\ span_meta = << >>
    /\ b_ret = NoBestSpan

\* ------------------------------------------------------------------------
\* collect_candidates_google_cse (search_client.py)
\* ------------------------------------------------------------------------

\* search_client.py:162, the largest page
PageMax == 10

\* search_client.py:204, the last start offset of the API
StartLimit == 91

\* the values of top_per_domain of a call
TopChoices == {0, 1, 2, 3, PageMax + 1}

NoRequest == [num |-> 0, start |-> 0]

\* variant: the page is as large as what is still wanted
PerReqUncapped(rem) == rem

\* per_req = min(10, remaining)
PerReq(rem) == Min(PageMax, rem)

\* `for site_filter in domains`: the next domain, or the return
CollectNextDomain ==
    /\ c_pc = "domain"
    /\ IF c_domain = n_domains
       THEN /\ c_pc' = "done"
            /\ UNCHANGED <<c_domain, remaining, c_start, c_kept, c_requests>>
       ELSE /\ c_domain' = c_domain + 1
            /\ remaining' = top_per_domain
            /\ c_start' = 1
            /\ c_kept' = 0
            /\ c_requests' = 0
            /\ c_pc' = "request"
    /\ UNCHANGED <<top_per_domain, n_domains, per_req, c_pending, c_last, c_raised>>
    /\ UNCHANGED <<old_vars, not_collect_vars>>

\* `while remaining > 0` and one google_cse_search call: it raises, or it
\* answers a page of 0 .. per_req items; an empty page leaves the loop
CollectRequest ==
    /\ c_pc = "request"
    /\ IF remaining > 0
       THEN /\ per_req' = PerReq(remaining)
            /\ c_last' = [num |-> PerReq(remaining), start |-> c_start]
            /\ c_requests' = c_requests + 1
            /\ \/ /\ c_raised' = TRUE
                  /\ c_pc' = "done"
                  /\ UNCHANGED c_pending
               \/ /\ \E k \in 0..PerReq(remaining) :
                         /\ c_pending' = k
                         /\ c_pc' = IF k = 0 THEN "domain" ELSE "items"
                  /\ UNCHANGED c_raised
       ELSE /\ c_pc' = "domain"
            /\ UNCHANGED <<per_req, c_last, c_requests, c_pending, c_raised>>
    /\ UNCHANGED <<top_per_domain, n_domains, c_domain, remaining, c_start, c_kept>>
    /\ UNCHANGED <<old_vars, not_collect_vars>>

\* an item without url, with a url already seen, or of an invalid page
CollectSkipItem ==
    /\ c_pc = "items"
    /\ c_pending > 0
    /\ c_pending' = c_pending - 1
    /\ UNCHANGED <<c_pc, top_per_domain, n_domains, c_domain, remaining, c_start, per_req,
                   c_kept, c_requests, c_last, c_raised>>
    /\ UNCHANGED <<old_vars, not_collect_vars>>

\* an item that is appended; `if remaining == 0: break` ends the page
CollectKeepItem ==
    /\ c_pc = "items"
    /\ c_pending > 0
    /\ c_kept' = c_kept + 1
    /\ remaining' = remaining - 1
    /\ c_pending' = IF remaining - 1 = 0 THEN 0 ELSE c_pending - 1
    /\ UNCHANGED <<c_pc, top_per_domain, n_domains, c_domain, c_start, per_req,
                   c_requests, c_last, c_raised>>
    /\ UNCHANGED <<old_vars, not_collect_vars>>

\* after the items: start += per_req; if start > 91: break
CollectPageEnd ==
    /\ c_pc = "items"
    /\ c_pending = 0
    /\ c_start' = c_start + per_req
    /\ c_pc' = IF c_start + per_req > StartLimit THEN "domain" ELSE "request"
    /\ UNCHANGED <<top_per_domain, n_domains, c_domain, remaining, per_req, c_pending,
                   c_kept, c_requests, c_last, c_raised>>
    /\ UNCHANGED <<old_vars, not_collect_vars>>

CollectOff ==
    /\ c_pc = "off"
    /\ top_per_domain = 0
    /\ n_domains = 0
    /\ c_domain = 0
    /\ remaining = 0
    /\ c_start = 1
    /\ per_req = 0
    /\ c_pending = 0
    /\ c_kept = 0
    /\ c_requests = 0
    /\ c_last = NoRequest
    /\ c_raised = FALSE

MoreOff ==
    /\ ServerOff
    /\ ResolveOff
    /\ BestOff
    /\ CollectOff

\* every function that is not being called
FnOff ==
    /\ DedupeOff
    /\ SpanOff
    /\ RankOff
    /\ MoreOff

vars == <<cse_vars, api_vars, merge_vars, dedup_vars, fn_vars>>

\* the state of a handler that has not received a request
ApiIdle ==
    /\ pc = "off"
    /\ request = [quote_id |-> "q1", quote_content |-> "", article_text |-> "None",
                  top_matches |-> 0]
    /\ invoked = {}
    /\ calls = NoCalls
    /\ result = NoPipelineResult
    /\ quote_en = ""
    /\ data = NoResult
    /\ search_items = << >>
    /\ candidates_for_matching = << >>
    /\ top_k_candidates = << >>
    /\ candidate_results = << >>
    /\ best_candidate = NoCand
    /\ max_distortion_prob = NoScore
    /\ max_distortion_score = NoScore
    /\ label = "None"
    /\ response = NoResponse
    /\ raised = FALSE

\* ------------------------------------------------------------------------
\* Specification of one request to find_quote_origin
\* ------------------------------------------------------------------------
Init ==
    /\ FnOff
    /\ CseIdle
    /\ MergeOff
    /\ DedupOff
    /\ pc = "VALIDATING"
    /\ request \in Requests
    /\ invoked = {}
    /\ calls = NoCalls
    /\ result = NoPipelineResult
    /\ quote_en = ""
    /\ data = NoResult
    /\ search_items = << >>
    /\ candidates_for_matching = << >>
    /\ top_k_candidates = << >>
    /\ candidate_results = << >>
    /\ best_candidate = NoCand
    /\ max_distortion_prob = NoScore
    /\ max_distortion_score = NoScore
    /\ label = "None"
    /\ response = NoResponse
    /\ raised = FALSE

Next ==
    \/ Validate
    \/ ExtractEntities
    \/ BuildQueries
    \/ Translate
    \/ SelectQuery
    \/ CseAttempt
    \/ CseExhausted
    \/ SearchReturn
    \/ PrepareCandidates
    \/ Match
    \/ ScoreCandidate
    \/ ComputeLabel
    \/ Respond

Spec == Init /\ [][Next]_vars

\* ------------------------------------------------------------------------
\* Specification of a direct google_cse_search call
\* ------------------------------------------------------------------------
InitSearch ==
    /\ FnOff
    /\ ApiIdle
    /\ MergeOff
    /\ DedupOff
    /\ cse_pc = "loop"
    /\ cse_retries \in 0..MaxRetries
    /\ cse_attempt = 0
    /\ cse_log = << >>
    /\ cse_result = NoResult
    /\ cse_caller = "direct"

NextSearch == CseAttempt \/ CseExhausted

SpecSearch == InitSearch /\ [][NextSearch]_vars

\* ------------------------------------------------------------------------
\* Specification of one merge_ner_entities call
\* ------------------------------------------------------------------------
InitMerge ==
    /\ FnOff
    /\ ApiIdle
    /\ CseIdle
    /\ DedupOff
    /\ m_pc = "call"
    /\ tokens \in TokenLists
    /\ merged_groups = << >>
    /\ merged_entities = << >>

NextMerge == MergeNerEntities

SpecMerge == InitMerge /\ [][NextMerge]_vars

\* ------------------------------------------------------------------------
\* Specification of the deduplication of extract_entities_only
\* ------------------------------------------------------------------------
InitDedup ==
    /\ FnOff
    /\ ApiIdle
    /\ CseIdle
    /\ MergeOff
    /\ d_pc = "entity"
    /\ entities \in EntityLists
    /\ d_idx = 0
    /\ d_pending = {}
    /\ is_duplicate = FALSE
    /\ seen_normalized = {}
    /\ entities_by_type = << >>

NextDedup == DedupNextEntity \/ DedupInner \/ DedupAdmit \/ DedupReturn

SpecDedup == InitDedup /\ [][NextDedup]_vars

\* ------------------------------------------------------------------------
\* Specification of one _dedupe_preserve call
\* ------------------------------------------------------------------------
InitDedupe ==
    /\ MoreOff
    /\ ApiIdle
    /\ CseIdle
    /\ MergeOff
    /\ DedupOff
    /\ SpanOff
    /\ RankOff
    /\ t_pc = "loop"
    /\ t_seq \in QueryTokenLists
    /\ t_idx = 0
    /\ t_seen = {}
    /\ t_out = << >>

NextDedupe == DedupePreserveStep \/ DedupePreserveReturn

SpecDedupe == InitDedupe /\ [][NextDedupe]_vars

\* ------------------------------------------------------------------------
\* Specification of one extract_span call
\* ------------------------------------------------------------------------
InitSpan ==
    /\ MoreOff
    /\ ApiIdle
    /\ CseIdle
    /\ MergeOff
    /\ DedupOff
    /\ DedupeOff
    /\ RankOff
    /\ x_pc = "call"
    /\ sentences \in SentenceLists
    /\ center_idx \in -1..MaxSentences
    /\ num_before \in -1..MaxAround
    /\ num_after \in -1..MaxAround
    /\ x_ret = NoSpanResult

NextSpan == ExtractSpanCall

SpecSpan == InitSpan /\ [][NextSpan]_vars

\* ------------------------------------------------------------------------
\* Specification of one find_best_span_from_candidates_debug call
\* ------------------------------------------------------------------------
InitRank ==
    /\ MoreOff
    /\ ApiIdle
    /\ CseIdle
    /\ MergeOff
    /\ DedupOff
    /\ DedupeOff
    /\ SpanOff
    /\ r_pc = "call"
    /\ r_candidates \in RankCandidateLists
    /\ r_outcomes \in [1..Len(r_candidates) -> RankOutcomes]
    /\ \A i \in 1..Len(r_candidates) :
          r_candidates[i].snippet # "text" => r_outcomes[i] = [ok |-> FALSE, sim |-> 0]
    /\ r_min_score \in MinScores
    /\ r_ret = NoBestGlobal

NextRank == RankCall

SpecRank == InitRank /\ [][NextRank]_vars

\* ------------------------------------------------------------------------
\* Specification of the server process: startup, then requests one at a time
\* (the handler is a coroutine without await, so requests do not interleave);
\* a process that serves without the startup event starts as "serving"
\* ------------------------------------------------------------------------
InitServer ==
    /\ ApiIdle
    /\ CseIdle
    /\ MergeOff
    /\ DedupOff
    /\ DedupeOff
    /\ SpanOff
    /\ RankOff
    /\ ResolveOff
    /\ BestOff
    /\ CollectOff
    /\ srv_pc \in {"starting", "serving"}
    /\ ckpt \in {"missing", "present"}
    /\ ner_cache = {}
    /\ translation_cache = FALSE
    /\ sentence_cache = FALSE
    /\ quote_mining_cache = FALSE
    /\ constructed = [c \in Capabilities |-> 0]
    /\ load_attempts = [startup |-> 0, requests |-> 0]
    /\ rq_pc = "idle"
    /\ rq_top_k = << >>
    /\ rq_results = << >>
    /\ rq_response = NoServerResponse
    /\ served = 0

NextServer ==
    \/ PreloadModels
    \/ RequestStart
    \/ RequestTag
    \/ RequestTranslate
    \/ RequestEmbed
    \/ RequestScore
    \/ RequestRespond

SpecServer == InitServer /\ [][NextServer]_vars

\* ------------------------------------------------------------------------
\* Specification of one resolve_person_name_en call
\* ------------------------------------------------------------------------
InitResolve ==
    /\ ApiIdle
    /\ CseIdle
    /\ MergeOff
    /\ DedupOff
    /\ DedupeOff
    /\ SpanOff
    /\ RankOff
    /\ ServerOff
    /\ BestOff
    /\ CollectOff
    /\ n_pc = "lexicon"
    /\ name_ko \in NameKinds
    /\ wikidata_outcome \in WikidataOutcomes
    /\ translate_outcome \in TranslateOutcomes
    /\ consulted = << >>
    /\ n_ret = NoNameResult

NextResolve == ResolveLexicon \/ ResolveWikidata \/ ResolveTranslate

SpecResolve == InitResolve /\ [][NextResolve]_vars

\* ------------------------------------------------------------------------
\* Specification of one find_best_match_span_in_snippet call; the sentence
\* model is a function of the text, so equal spans have equal similarities
\* ------------------------------------------------------------------------
InitBest ==
    /\ ApiIdle
    /\ CseIdle
    /\ MergeOff
    /\ DedupOff
    /\ DedupeOff
    /\ SpanOff
    /\ RankOff
    /\ ServerOff
    /\ ResolveOff
    /\ CollectOff
    /\ b_pc = "call"
    /\ b_sentences \in SentenceLists
    /\ b_before \in 0..MaxAround
    /\ b_after \in 0..MaxAround
    /\ b_encode \in {"ok", "raises"}
    /\ sims \in [1..Len(b_sentences) -> SpanSims]
    /\ LET cands == SpanCandidates(b_sentences, b_before, b_after)
       IN \A i \in 1..Len(b_sentences) : \A j \in 1..Len(b_sentences) :
              cands[i].span_text = cands[j].span_text => sims[i] = sims[j]
    /\ span_meta = << >>
    /\ b_ret = NoBestSpan

NextBest == FindBestMatchSpanCall

SpecBest == InitBest /\ [][NextBest]_vars

\* ------------------------------------------------------------------------
\* Specification of one collect_candidates_google_cse call; the call runs
\* until it returns, so a step that is possible is eventually taken
\* ------------------------------------------------------------------------
MaxDomains == 2

InitCollect ==
    /\ ApiIdle
    /\ CseIdle
    /\ MergeOff
    /\ DedupOff
    /\ DedupeOff
    /\ SpanOff
    /\ RankOff
    /\ ServerOff
    /\ ResolveOff
    /\ BestOff
    /\ c_pc = "domain"
    /\ top_per_domain \in TopChoices
    /\ n_domains \in 0..MaxDomains
    /\ c_domain = 0
    /\ remaining = 0
    /\ c_start = 1
    /\ per_req = 0
    /\ c_pending = 0
    /\ c_kept = 0
    /\ c_requests = 0
    /\ c_last = NoRequest
    /\ c_raised = FALSE

NextCollect ==
    \/ CollectNextDomain
    \/ CollectRequest
    \/ CollectSkipItem
    \/ CollectKeepItem
    \/ CollectPageEnd

SpecCollect == InitCollect /\ [][NextCollect]_vars /\ WF_vars(NextCollect)

\* ------------------------------------------------------------------------
\* Properties of find_quote_origin
\* ------------------------------------------------------------------------

Finished == pc \in {"DONE", "ERROR"}

\* C1: whenever the search call of a valid request came back without items,
\* the handler has answered normally with no candidates and the error
\* "No search results found".
C1_NoResultsError ==
    (data # NoResult /\ ItemsOf(data) = << >>) =>
        /\ ~raised
        /\ Finished
        /\ response # NoResponse
        /\ response.candidates = << >>
        /\ response.error = "No search results found"

C1_Witness ==
    /\ data = EmptyResult
    /\ request.quote_content = "quote"
    /\ request.article_text = "text"
    /\ pc = "ERROR"
    /\ response # NoResponse
    /\ response.error = "No search results found"

\* C2: no exception ever leaves the handler; a handler that has finished has
\* produced a response with the request's quote_id; a handler that has not
\* finished can take a step; and a fault raised outside the per-step try
\* blocks (a malformed search item) ends in the "Unexpected error" response.
C2_NeverPropagates ==
    /\ ~raised
    /\ (Finished => (response # NoResponse /\ response.quote_id = request.quote_id))
    /\ (~Finished => (response = NoResponse /\ ENABLED Next))
    /\ ((Finished /\ \E i \in 1..Len(search_items) : ItemRaises(search_items[i]))
            => response.error = "Unexpected error")

C2_Witness ==
    /\ pc = "ERROR"
    /\ request.quote_id = "q2"
    /\ "tagger" \in invoked
    /\ response # NoResponse
    /\ response.quote_id = "q2"
    /\ response.error = "Unexpected error"

\* C3: a request without article_text, or with an empty or whitespace-only
\* quote_content, calls no capability and starts no search, and its answer
\* is a validation error with no candidates.
C3_ValidationFirst ==
    (request.article_text \in {"None", ""} \/ request.quote_content \in {"", "blank"}) =>
        /\ invoked = {}
    /\ calls = NoCalls
        /\ cse_pc = "idle"
        /\ pc \in {"VALIDATING", "ERROR"}
        /\ (pc = "ERROR" =>
               /\ response # NoResponse
               /\ response.candidates = << >>
               /\ response.error \in {"article_text is required", "quote_content is empty"})

C3_Witness ==
    /\ request.article_text = "text"
    /\ request.quote_content = "blank"
    /\ pc = "ERROR"
    /\ response # NoResponse
    /\ response.error = "quote_content is empty"
    /\ invoked = {}
    /\ calls = NoCalls

ScoredCandidates ==
    { i \in 1..Len(candidate_results) : candidate_results[i].distortion_score # NoScore }

\* C7: the label is set exactly when some returned candidate has a
\* distortion score, and then it is "distorted" when the largest score,
\* rounded to two decimals on the 0-100 scale, is at least 50.00 and
\* "normal" when it is below.
C7_LabelThreshold ==
    /\ (pc \notin {"RESPONDING", "DONE"} => label = "None")
    /\ (pc \in {"RESPONDING", "DONE"} =>
          /\ (label # "None") <=> (ScoredCandidates # {})
          /\ \A i \in ScoredCandidates :
                (\A j \in ScoredCandidates :
                     candidate_results[j].distortion_score <= candidate_results[i].distortion_score)
                => /\ (RoundTenth(candidate_results[i].distortion_score) >= 5000
                          => label = "distorted")
                   /\ (RoundTenth(candidate_results[i].distortion_score) <= 4999
                          => label = "normal"))

C7_Witness ==
    /\ pc = "DONE"
    /\ label = "distorted"
    /\ max_distortion_score = 5000
    /\ Len(candidate_results) = 2
    /\ candidate_results[1].distortion_score = 50000
    /\ candidate_results[2].distortion_score = 49990

\* C8: once a response with a scored candidate has been returned, it
\* carries the computed max_distortion_score and label.
C8_ResponseCarriesLabel ==
    (pc = "DONE" /\ \E i \in 1..Len(response.candidates) :
                        response.candidates[i].distortion_score # NoScore) =>
        /\ "max_distortion_score" \in DOMAIN response
        /\ "label" \in DOMAIN response
        /\ response.max_distortion_score = max_distortion_score
        /\ response.label = label

\* ------------------------------------------------------------------------
\* Properties of google_cse_search
\* ------------------------------------------------------------------------

\* C4: a 200 with a JSON body that arrives after k < retries retryable
\* statuses (429 or 5xx) ends the call: its body is the returned value and
\* it is the last request.
C4_RetryThenSuccess ==
    \A i \in 1..Len(cse_log) :
        ( /\ cse_log[i].status = 200
          /\ cse_log[i].body.kind = "json"
          /\ i - 1 < cse_retries
          /\ \A j \in 1..(i - 1) : cse_log[j].status \in RetryableStatuses )
        => /\ cse_pc = "returned"
           /\ cse_result = cse_log[i].body
           /\ Len(cse_log) = i

C4_Witness ==
    /\ Len(cse_log) = 3
    /\ cse_log[1].status = 503
    /\ cse_log[2].status = 503
    /\ cse_log[3].status = 200
    /\ Len(cse_log[3].body.items) = 1
    /\ cse_pc = "returned"
    /\ cse_result = cse_log[3].body

NonRetryable4xx == (400..499) \ {429}

\* C5: a non-retryable 4xx answer is the last request of the call, is not
\* followed by a backoff sleep, and fails the call.
C5_NonRetryableFailsAtOnce ==
    \A i \in 1..Len(cse_log) :
        cse_log[i].status \in NonRetryable4xx =>
            /\ Len(cse_log) = i
            /\ ~cse_log[i].slept
            /\ cse_pc = "raised"

\* C6: as long as every attempt ended in a retryable status or a network
\* error, at most `retries` requests were made and nothing was raised; the
\* call then returns {"items": []} after exactly `retries` requests.
C6_ExhaustedReturnsEmpty ==
    (\A i \in 1..Len(cse_log) : cse_log[i].status \in RetryableStatuses \cup {NetErr}) =>
        /\ Len(cse_log) <= cse_retries
        /\ cse_pc # "raised"
        /\ (cse_pc = "loop" => ENABLED NextSearch)
        /\ (cse_pc = "returned" =>
               (cse_result = EmptyResult /\ Len(cse_log) = cse_retries))

C6_Witness ==
    /\ cse_retries = 3
    /\ Len(cse_log) = 3
    /\ cse_log[1].status = 503
    /\ cse_log[2].status = NetErr
    /\ cse_log[3].status = 429
    /\ cse_pc = "returned"
    /\ cse_result = EmptyResult

\* ------------------------------------------------------------------------
\* Properties of merge_ner_entities
\* ------------------------------------------------------------------------

AllowedToken(t) == EntityType(t) \in NER_LABELS

\* B then I, same label, next start <= previous end + 1
MergeablePair(t1, t2) ==
    /\ EntityType(t1) = EntityType(t2)
    /\ TagType(t1) = "B"
    /\ TagType(t2) = "I"
    /\ t2.start <= t1.end + 1

\* the text of a token without the word-continuation marker
TokenText(t) == RemoveMarkers(t.word)

\* a text that the output filter lets through
TextIsKept(w) ==
    /\ Len(w) >= 2
    /\ \E k \in 1..Len(w) : w[k] \notin {" ", "-", MidDot}

TextEntity(lbl, w) == IF TextIsKept(w) THEN << [label |-> lbl, word |-> w] >> ELSE << >>

GroupsOf(i) ==
    { g \in 1..Len(merged_groups) : \E k \in 1..Len(merged_groups[g]) : merged_groups[g][k] = i }

\* C25: every token with an allowed label belongs to exactly one group of
\* the grouping pass; an I token that cannot be appended (other label, not
\* adjacent, or no open buffer) begins a new group, so no allowed token is
\* dropped.
C25_AllowedTokenInOneGroup ==
    m_pc = "done" =>
        \A i \in 1..Len(tokens) :
            AllowedToken(tokens[i]) =>
                /\ Cardinality(GroupsOf(i)) = 1
                /\ (TagType(tokens[i]) = "I"
                      /\ (i = 1 \/ ~AllowedToken(tokens[i - 1])
                            \/ EntityType(tokens[i - 1]) # EntityType(tokens[i])
                            \/ ~(tokens[i].start <= tokens[i - 1].end + 1)))
                     => \E g \in GroupsOf(i) : merged_groups[g][1] = i

PunctuationChars == {"\"", "'", "(", ")", "[", "]", "{", "}", ",", ".", "!", "?", "-", MidDot}

OnlyPunctuation(w) == \A k \in 1..Len(w) : w[k] \in PunctuationChars

\* C26: no returned entity has a text shorter than two characters, and none
\* has a text made of punctuation characters only, whatever its length.
C26_NoShortOrPunctuationEntity ==
    m_pc = "done" =>
        \A k \in 1..Len(merged_entities) :
            /\ Len(merged_entities[k].word) >= 2
            /\ ~OnlyPunctuation(merged_entities[k].word)

\* ------------------------------------------------------------------------
\* Properties of the deduplication of extract_entities_only
\* ------------------------------------------------------------------------

InputEntities == { entities[k] : k \in 1..Len(entities) }

\* the (label, text) pairs of the returned mapping
Retained ==
    UNION { { <<lbl, entities_by_type[lbl][k]>> : k \in 1..Len(entities_by_type[lbl]) }
            : lbl \in DOMAIN entities_by_type }

\* the input entities whose normal form is inside no other input's
MaximalInput ==
    { <<e.label, e.word>> :
        e \in { f \in InputEntities :
                  ~\E g \in InputEntities :
                      StrictlyInside(NormalizeKoreanPhrase(f.word),
                                     NormalizeKoreanPhrase(g.word)) } }

\* C10: whatever the order of the entity list and the order in which the
\* seen set is walked, the mapping returned holds exactly the entities whose
\* normal form is a strict substring of no other input's normal form, so no
\* retained form is a strict substring of another retained form.
C10_DedupOrderIndependent ==
    d_pc = "done" =>
        /\ Retained = MaximalInput
        /\ \A r1 \in Retained : \A r2 \in Retained :
               ~StrictlyInside(NormalizeKoreanPhrase(r1[2]), NormalizeKoreanPhrase(r2[2]))

C10_Witness ==
    /\ d_pc = "done"
    /\ entities = << Ent("LOC", <<"a", "b">>), Ent("LOC", <<"a", "b", "c">>) >>
    /\ Retained = { <<"LOC", <<"a", "b", "c">> >> }

\* the letters of the entity texts
Letters == {"a", "b", "c", "s", "A", "B", "S"}

LettersOf(w) == SelectSeq(w, LAMBDA c : c \in Letters)

\* a text without its spaces and hyphens, in lower case
SpacingCaseForm(w) ==
    LET kept == RemoveChars(w, {" ", "-"})
    IN [k \in 1..Len(kept) |-> LowerChar(kept[k])]

\* C27: the normalization used for the deduplication removes spaces, hyphens
\* and separator punctuation and lowercases, and nothing else: two entity
\* texts that differ only in spaces, hyphens or case have the same normalized
\* form, and no letter of a text is removed.
C27_NormalizationKeepsLetters ==
    d_pc = "done" =>
        /\ \A e1 \in InputEntities : \A e2 \in InputEntities :
               SpacingCaseForm(e1.word) = SpacingCaseForm(e2.word)
                   => NormalizeKoreanPhrase(e1.word) = NormalizeKoreanPhrase(e2.word)
        /\ \A e \in InputEntities :
               Len(LettersOf(NormalizeKoreanPhrase(e.word))) = Len(LettersOf(e.word))
        /\ \A n \in seen_normalized :
               \E e \in InputEntities : Len(LettersOf(n)) = Len(LettersOf(e.word))

\* ------------------------------------------------------------------------
\* Properties of _dedupe_preserve
\* ------------------------------------------------------------------------

\* lowercasing and punctuation removal, as the claim and the docstrings of
\* _normalize_token and _dedupe_preserve put it: punctuation is taken out,
\* extra spaces are ignored
InsensitiveForm(tok) == Strip(SplitJoin(Lower(RemoveChars(tok, {".", "!"}))))

\* the positions of t_seq that hold the first token of their class
FirstOfClass ==
    { i \in 1..Len(t_seq) :
        /\ InsensitiveForm(t_seq[i]) # << >>
        /\ \A j \in 1..(i - 1) : InsensitiveForm(t_seq[j]) # InsensitiveForm(t_seq[i]) }

RECURSIVE Pick(_, _, _)
Pick(s, keep, i) ==
    IF i > Len(s) THEN << >>
    ELSE (IF i \in keep THEN <<s[i]>> ELSE << >>) \o Pick(s, keep, i + 1)

\* C11: _dedupe_preserve returns the subsequence of its input that keeps, of
\* every class of tokens equal after lowercasing and punctuation removal, the
\* first occurrence only, in first-seen order, and drops the tokens that are
\* empty after normalization.
C11_DedupePunctuationInsensitive ==
    t_pc = "done" => t_out = Pick(t_seq, FirstOfClass, 1)

\* ------------------------------------------------------------------------
\* Properties of extract_span
\* ------------------------------------------------------------------------

\* the sentences (0-based indices) the claim says are returned
ClaimedIndices ==
    { i \in 0..(Len(sentences) - 1) :
        center_idx - num_before <= i /\ i <= center_idx + num_after }

\* the pieces of the returned span that are sentences
ReturnedSentences == { x_ret.span[k] : k \in { j \in 1..Len(x_ret.span) : j % 2 = 1 } }

InRange == Len(sentences) >= 1 /\ 0 <= center_idx /\ center_idx < Len(sentences)

\* C12: on n >= 1 sentences, an in-range center and non-negative before and
\* after, extract_span does not raise and returns exactly the sentences with
\* indices max(0, center-before) .. min(n-1, center+after), the center among
\* them; on an empty list or an out-of-range center it raises.
C12_ExtractSpanClamped ==
    x_pc = "done" =>
        /\ (InRange /\ num_before >= 0 /\ num_after >= 0) =>
              /\ x_ret.raised = "None"
              /\ ReturnedSentences = { sentences[i + 1] : i \in ClaimedIndices }
              /\ Len(x_ret.span) = 2 * Cardinality(ClaimedIndices) - 1
              /\ x_ret.start_idx = Max(0, center_idx - num_before)
              /\ x_ret.end_idx = Min(Len(sentences) - 1, center_idx + num_after)
              /\ sentences[center_idx + 1] \in ReturnedSentences
        /\ ~InRange => x_ret.raised # "None"

\* a call whose window is cut at both ends of the list
C12_Witness ==
    /\ x_pc = "done"
    /\ Len(sentences) = 2 /\ center_idx = 0 /\ num_before = 1 /\ num_after = 2
    /\ x_ret.raised = "None"
    /\ x_ret.span = <<"s0", " ", "s1">>

\* ------------------------------------------------------------------------
\* Properties of find_best_span_from_candidates_debug
\* ------------------------------------------------------------------------

\* the positions of the candidates that yield a span scoring min_score or more
Clearing ==
    { i \in 1..Len(r_candidates) :
        /\ Truthy(r_candidates[i].url)
        /\ r_candidates[i].snippet = "text"
        /\ r_outcomes[i].ok
        /\ r_outcomes[i].sim >= r_min_score }

\* C14: find_best_span_from_candidates_debug returns none exactly when the
\* candidate list is empty or no candidate yields a span with score >=
\* min_score; otherwise it returns the highest-scoring span with a list that
\* holds at most one span per input candidate, only spans with score >=
\* min_score, in descending order of score, the returned span first.
C14_RankedSpans ==
    r_pc = "done" =>
        /\ r_ret = NoBestGlobal <=> Clearing = {}
        /\ r_ret # NoBestGlobal =>
              LET top == r_ret.top_k_candidates
              IN /\ Len(top) = Cardinality(Clearing)
                 /\ Len(top) <= Len(r_candidates)
                 /\ \A k \in 1..Len(top) :
                       /\ top[k].best_score >= r_min_score
                       /\ \E i \in Clearing :
                             /\ top[k].url = r_candidates[i].url
                             /\ top[k].best_score = r_outcomes[i].sim
                 /\ \A k \in 1..(Len(top) - 1) : top[k].best_score >= top[k + 1].best_score
                 /\ r_ret.best = top[1]
                 /\ \A i \in Clearing : r_ret.best.best_score >= r_outcomes[i].sim

\* two candidates clear the threshold in ascending order of score, a third
\* one stays below it
C14_Witness ==
    /\ r_pc = "done"
    /\ r_min_score = 12346
    /\ Len(r_candidates) >= 2
    /\ Cardinality(Clearing) = 2
    /\ r_outcomes[1].ok /\ r_outcomes[2].ok
    /\ r_outcomes[1].sim = 40000 /\ r_outcomes[2].sim = 90000
    /\ r_ret # NoBestGlobal
    /\ r_ret.best.best_score = 90000
    /\ Len(r_ret.top_k_candidates) = 2

\* ------------------------------------------------------------------------
\* Further properties of find_quote_origin
\* ------------------------------------------------------------------------

ErrorIs(msg) == response # NoResponse /\ response.error = msg

\* C13: the error of a search that returned items of which no span was
\* selected ("No matching spans found") differs from the error of a search
\* without items ("No search results found"), and the matching error is only
\* returned to requests whose search returned at least one item.
C13_MatchErrorDistinct ==
    /\ ErrorIs("No matching spans found") =>
          /\ Len(search_items) >= 1
          /\ data.hasItems /\ Len(data.items) >= 1
          /\ "matcher" \in invoked
          /\ ~ErrorIs("No search results found")
    /\ ErrorIs("No search results found") =>
          /\ search_items = << >>
          /\ "matcher" \notin invoked

\* a search returned an item and the matcher selected no span
C13_Witness ==
    /\ pc = "ERROR"
    /\ ErrorIs("No matching spans found")
    /\ Len(search_items) >= 1
    /\ candidates_for_matching # << >>

Succeeded == pc = "DONE" /\ response # NoResponse /\ response.error = "None"

\* candidates are numbered by position and ordered by similarity
RankedByPosition(cands) ==
    /\ \A k \in 1..Len(cands) : cands[k].candidate_index = k - 1
    /\ \A k \in 1..(Len(cands) - 1) :
          cands[k].similarity_score >= cands[k + 1].similarity_score

\* best is the first of cands and no span that cleared the minimum-score
\* filter is more similar
BestIsFirst(cands, best) ==
    /\ cands # << >>
    /\ best = cands[1]
    /\ \A k \in 1..Len(top_k_candidates) :
          best.similarity_score >= RoundTenth(top_k_candidates[k].best_score)
    /\ \E k \in 1..Len(top_k_candidates) :
          /\ best.similarity_score = RoundTenth(top_k_candidates[k].best_score)
          /\ best.source_url = top_k_candidates[k].url

\* C15 as stated: in every successful response the candidates are in
\* non-increasing similarity order with candidate_index equal to their
\* position, and best_candidate is the candidate at position 0, the most
\* similar of all candidates that cleared the minimum-score filter.
C15_BestFirstAlways ==
    Succeeded =>
        /\ RankedByPosition(response.candidates)
        /\ BestIsFirst(response.candidates, response.best_candidate)

\* C15 (amended): in every successful response the candidates are in
\* non-increasing similarity order with candidate_index equal to their
\* position; when the list is not empty best_candidate is the candidate at
\* position 0, the most similar of all candidates that cleared the filter;
\* the list is empty, and best_candidate null, exactly when the slice
\* [:top_matches] of the ranked spans is empty.
C15_BestFirstWhenAny ==
    Succeeded =>
        /\ RankedByPosition(response.candidates)
        /\ response.candidates # << >> =>
              BestIsFirst(response.candidates, response.best_candidate)
        /\ response.candidates = << >> =>
              /\ response.best_candidate = NoCand
              /\ top_k_candidates # << >>
              /\ request.top_matches <= 0
              /\ request.top_matches = 0 \/ Len(top_k_candidates) + request.top_matches <= 0
        /\ (request.top_matches > 0) => response.candidates # << >>

\* the second search result is the more similar one and is returned first
C15_Witness ==
    /\ Succeeded
    /\ Len(response.candidates) = 2
    /\ response.candidates[1].similarity_score > response.candidates[2].similarity_score
    /\ response.candidates[1].source_url = candidates_for_matching[2].url
    /\ response.candidates[1].source_url # candidates_for_matching[1].url
    /\ response.best_candidate = response.candidates[1]

\* the errors of the steps that follow the translation of the quote
LaterErrors ==
    {"None", "Could not generate search query", "Search failed",
     "No search results found", "Span matching failed", "No matching spans found",
     "Unexpected error"}

\* C16: when the translator fails on the quote the request is not aborted
\* for that reason: the original quote text is what is matched and scored,
\* and the translation step produces no error response.
C16_TranslationFallback ==
    calls.translator = "raised" =>
        /\ pc # "TRANSLATING"
        /\ quote_en = request.quote_content
        /\ calls.matcher \in {"None", request.quote_content}
        /\ calls.classifier \in {"None", request.quote_content}
        /\ response # NoResponse => response.error \in LaterErrors
        /\ pc = "QUERY_SELECT" => response = NoResponse

\* a request whose translation failed and that was matched and scored on the
\* original quote
C16_Witness ==
    /\ pc = "DONE"
    /\ calls.translator = "raised"
    /\ calls.matcher = request.quote_content
    /\ calls.classifier = request.quote_content
    /\ request.quote_content = "quote"
    /\ response.error = "None"
    /\ response.candidates # << >>

\* the stage a step of the handler belongs to: choosing the query is the
\* first part of the search step, preparing the candidates the first part of
\* the matching step, assembling the response the last part of scoring
StageOf(p) ==
    CASE p = "QUERY_SELECT" -> "SEARCHING"
      [] p = "PREPARING" -> "MATCHING"
      [] p = "RESPONDING" -> "SCORING"
      [] OTHER -> p

\* the position of a stage in the order the claim gives
ClaimedOrder(stage) ==
    CASE stage = "VALIDATING" -> 1
      [] stage = "EXTRACTING" -> 2
      [] stage = "TRANSLATING" -> 3
      [] stage = "QUERYING" -> 4
      [] stage = "SEARCHING" -> 5
      [] stage = "MATCHING" -> 6
      [] stage = "SCORING" -> 7
      [] stage = "DONE" -> 8
      [] OTHER -> 0

\* the position of a stage in the order of the code: the queries are built
\* by build_queries_from_text, before the quote is translated
CodeOrder(stage) ==
    CASE stage = "VALIDATING" -> 1
      [] stage = "EXTRACTING" -> 2
      [] stage = "QUERYING" -> 3
      [] stage = "TRANSLATING" -> 4
      [] stage = "SEARCHING" -> 5
      [] stage = "MATCHING" -> 6
      [] stage = "SCORING" -> 7
      [] stage = "DONE" -> 8
      [] OTHER -> 0

StageStep ==
    /\ pc \notin {"DONE", "ERROR"}
    /\ StageOf(pc') # StageOf(pc) =>
          \/ StageOf(pc') = "ERROR"
          \/ CodeOrder(StageOf(pc')) = CodeOrder(StageOf(pc)) + 1

Absent(resp, field) == field \notin DOMAIN resp

\* C18: in every response a non-null error implies that candidates is empty
\* and best_candidate, max_distortion_score and label are absent, and a
\* response with a non-empty candidates list has error = null.
C18_ErrorMeansEmpty ==
    response # NoResponse =>
        /\ response.error # "None" =>
              /\ response.candidates = << >>
              /\ response.best_candidate = NoCand
              /\ Absent(response, "max_distortion_score")
              /\ Absent(response, "label")
        /\ response.candidates # << >> => response.error = "None"

\* an error response of a request that had reached the matcher, and a
\* response with candidates
C18_WitnessError ==
    /\ pc = "ERROR"
    /\ response # NoResponse
    /\ response.error = "No matching spans found"
    /\ candidates_for_matching # << >>

C18_WitnessCandidates ==
    /\ pc = "DONE"
    /\ response.candidates # << >>
    /\ response.error = "None"
    /\ label = "None"
    /\ \A k \in 1..Len(response.candidates) : response.candidates[k].distortion_score = NoScore

\* min(top_matches, number of ranked spans) entries, none when that is
\* negative
ClaimedCount ==
    Max(0, Min(request.top_matches, Len(top_k_candidates)))

\* C19: for every value of top_matches the returned candidates are the first
\* min(top_matches, number of ranked spans) entries of the ranked span list,
\* and only those entries are passed to the distortion classifier.
C19_TopMatchesPrefix ==
    /\ pc = "SCORING" => Len(candidate_results) <= ClaimedCount
    /\ Succeeded =>
          /\ Len(response.candidates) = ClaimedCount
          /\ \A k \in 1..Len(response.candidates) :
                /\ response.candidates[k].source_url = top_k_candidates[k].url
                /\ response.candidates[k].similarity_score
                      = RoundTenth(top_k_candidates[k].best_score)
          /\ ClaimedCount = 0 => "classifier" \notin invoked

\* C20: when the classifier fails for some of the top-N candidates, those
\* candidates are still returned, with distortion_score and is_distorted
\* absent; every other top-N candidate is still scored; the response has no
\* error.
C20_ScoringFailureIsLocal ==
    pc \in {"RESPONDING", "DONE"} =>
        /\ Len(candidate_results) = Len(SliceTo(top_k_candidates, request.top_matches))
        /\ \A k \in 1..Len(candidate_results) :
              /\ candidate_results[k].source_url = top_k_candidates[k].url
              /\ (k - 1) \in calls.classifier_raised =>
                    /\ candidate_results[k].distortion_score = NoScore
                    /\ candidate_results[k].is_distorted = "None"
              /\ (k - 1) \notin calls.classifier_raised =>
                    /\ candidate_results[k].distortion_score \in ProbSet
                    /\ candidate_results[k].is_distorted \in {"True", "False"}
        /\ pc = "DONE" =>
              /\ response.error = "None"
              /\ response.candidates = candidate_results

\* the classifier failed for the first of two candidates and scored the
\* second
C20_Witness ==
    /\ pc = "DONE"
    /\ calls.classifier_raised = {0}
    /\ Len(response.candidates) = 2
    /\ response.candidates[1].distortion_score = NoScore
    /\ response.candidates[2].distortion_score = 50000
    /\ response.error = "None"

\* ------------------------------------------------------------------------
\* Properties of the server process
\* ------------------------------------------------------------------------

Started == srv_pc = "serving" /\ load_attempts.startup = 1

\* C21: with the classifier checkpoint missing, startup still completes and
\* every later request that reaches scoring succeeds with distortion_score
\* and is_distorted absent on every candidate, without label and without
\* error; the checkpoint load is attempted once, at startup, and not again on
\* each request.
C21_MissingCheckpointOnce ==
    (ckpt = "missing" /\ Started) =>
        /\ ~quote_mining_cache
        /\ constructed["classifier"] = 0
        /\ \A k \in 1..Len(rq_results) :
              /\ rq_results[k].distortion_score = NoScore
              /\ rq_results[k].is_distorted = "None"
        /\ rq_response # NoServerResponse =>
              /\ rq_response.label = "None"
              /\ rq_response.error = "None"
        /\ load_attempts.requests = 0

\* C22: every process-wide capability handle is constructed at most once per
\* process, whatever the sequence of startup preload and requests; the tagger
\* loaded at startup is the one requests use, without a second load.
C22_HandlesBuiltOnce ==
    \A c \in Capabilities : constructed[c] <= 1

\* ------------------------------------------------------------------------
\* Further properties of find_quote_origin (queries and labels)
\* ------------------------------------------------------------------------

\* build_queries_from_text has returned and found no PER entity
NoPersonFound ==
    /\ result.per = 0
    /\ pc = "TRANSLATING" \/ calls.translator # "None"

\* C23: when the extracted entities hold no PERSON entity,
\* generate_search_query returns both queries as null whatever the locations
\* and the quote, no search request is issued, and the answer is the error
\* "Could not generate search query".
C23_NoPersonNoQuery ==
    NoPersonFound =>
        /\ result.queries = [ko |-> "", en |-> ""]
        /\ "search" \notin invoked
        /\ cse_pc = "idle" /\ cse_log = << >>
        /\ pc \in {"TRANSLATING", "QUERY_SELECT", "ERROR"}
        /\ pc = "ERROR" =>
              /\ response.error = "Could not generate search query"
              /\ response.candidates = << >>

\* an article with a location and no person, and a quote
C23_Witness ==
    /\ pc = "ERROR"
    /\ NoPersonFound
    /\ result.loc = 1
    /\ request.quote_content = "quote"
    /\ response.error = "Could not generate search query"

\* C30: in every response the aggregate label agrees with the flags of the
\* candidates: the label is "distorted" exactly when some returned candidate
\* has is_distorted = true.
C30_LabelAgreesWithFlags ==
    Succeeded =>
        ((label = "distorted") <=>
            (\E i \in 1..Len(response.candidates) :
                 response.candidates[i].is_distorted = "True"))

\* ------------------------------------------------------------------------
\* Properties of resolve_person_name_en
\* ------------------------------------------------------------------------

WikidataFailed == wikidata_outcome \in {"raises", "fetch_error", "no_entry", "no_labels"}
WikidataWithoutName == wikidata_outcome = "ko_only"

\* C24: resolve_person_name_en tries its sources in strict priority: a
\* lexicon hit is returned without the knowledge base or the translator; the
\* knowledge base is consulted only after a lexicon miss; the translator only
\* after the knowledge base failed or gave no foreign name; a failing step
\* falls through to the next, and when all fail the native name is returned:
\* the function never raises.
C24_ResolutionPriority ==
    /\ ~n_ret.raised
    /\ consulted \in {<< >>, <<"lexicon">>, <<"lexicon", "wikidata">>,
                      <<"lexicon", "wikidata", "translator">>}
    /\ n_pc = "done" =>
          /\ n_ret.value # "pending" /\ n_ret.value # "None"
          /\ (StrippedName(name_ko) # "" /\ LexiconHit(name_ko)) =>
                /\ consulted = <<"lexicon">>
                /\ n_ret.value = "lexicon name"
          /\ Len(consulted) >= 2 => ~LexiconHit(name_ko)
          /\ Len(consulted) = 2 =>
                /\ wikidata_outcome = "en"
                /\ n_ret.value = "wikidata name"
          /\ Len(consulted) = 3 => (WikidataFailed \/ WikidataWithoutName)
          /\ (StrippedName(name_ko) # "" /\ ~LexiconHit(name_ko)
                /\ (WikidataFailed \/ WikidataWithoutName)) =>
                /\ Len(consulted) = 3
                /\ translate_outcome = "text" => n_ret.value = "translated name"
                /\ translate_outcome = "raises" => n_ret.value = name_ko

\* every source failed and the native name came back
C24_Witness ==
    /\ n_pc = "done"
    /\ name_ko = "unknown"
    /\ wikidata_outcome = "raises"
    /\ translate_outcome = "raises"
    /\ consulted = <<"lexicon", "wikidata", "translator">>
    /\ n_ret = [raised |-> FALSE, value |-> "unknown"]

\* ------------------------------------------------------------------------
\* Properties of find_best_match_span_in_snippet
\* ------------------------------------------------------------------------

\* the center indices whose span has the highest similarity
BestCenters == { c \in 1..Len(sims) : \A j \in 1..Len(sims) : sims[j] <= sims[c] }

LowestBestCenter == CHOOSE c \in BestCenters : \A d \in BestCenters : c <= d

\* C28: find_best_match_span_in_snippet builds one span per center index of
\* the snippet's sentences and returns the span of maximum similarity; among
\* several spans of maximum similarity the one of lowest center index is
\* returned, so the result is a function of the inputs.
C28_FirstMaximalSpan ==
    (b_pc = "done" /\ ~b_ret.none) =>
        /\ Len(span_meta) = Len(b_sentences)
        /\ \A c \in 1..Len(span_meta) :
               /\ span_meta[c].center_idx = c - 1
               /\ span_meta[c].span_start_idx = Max(0, c - 1 - b_before)
               /\ span_meta[c].span_end_idx = Min(Len(b_sentences) - 1, c - 1 + b_after)
        /\ \A c \in 1..Len(sims) : sims[c] <= b_ret.best_score
        /\ b_ret.best_score = sims[LowestBestCenter]
        /\ b_ret.best_sentence = b_sentences[LowestBestCenter]
        /\ b_ret.span_text = span_meta[LowestBestCenter].span_text
        /\ b_ret.span_start_idx = span_meta[LowestBestCenter].span_start_idx
        /\ b_ret.span_end_idx = span_meta[LowestBestCenter].span_end_idx

\* the first and the last of three spans share the maximum
C28_Witness ==
    /\ b_pc = "done"
    /\ b_sentences = <<"s0", "s1", "s2">>
    /\ b_before = 0
    /\ b_after = 0
    /\ sims = <<90000, 20000, 90000>>
    /\ ~b_ret.none
    /\ b_ret.best_sentence = "s0"
    /\ b_ret.best_score = 90000

\* ------------------------------------------------------------------------
\* Properties of collect_candidates_google_cse
\* ------------------------------------------------------------------------

\* C29: collect_candidates_google_cse terminates for every sequence of search
\* responses and page-validity outcomes: for each domain it issues finitely
\* many requests, each of page size at most 10 and start offset at most 91,
\* and it keeps at most top_per_domain candidates of that domain.
C29_CollectTerminates ==
    /\ <>(c_pc = "done")
    /\ [](/\ c_requests <= StartLimit
          /\ c_last.num <= 10
          /\ c_last.start <= 91
          /\ c_kept <= top_per_domain)

\* a call that asked for more than one page of candidates, was answered
\* pages of skipped items up to the last offset, and returned
C29_Witness ==
    /\ c_pc = "done"
    /\ ~c_raised
    /\ top_per_domain > 10
    /\ c_last = [num |-> 10, start |-> 91]
    /\ c_requests = 10
    /\ c_kept = 0

====
